---- MODULE Spec2Model ----
(***************************************************************************)
(* Timing and orchestration core of the smart alarm.                       *)
(*                                                                         *)
(*   Spec       the morning routine: the wake dispatcher callbacks of      *)
(*              Alarm.tsx, handleAlarmTrigger of the screen, and the       *)
(*              StartMyDay orchestrator with its CalendarFetcher, its      *)
(*              timers and the speech engine.                              *)
(*   SpecAlarm  the wake scheduler of Alarm.tsx: the component state, the  *)
(*              asynchronous scheduleAlarm / cancelAlarm / permission      *)
(*              operations with the values their closures captured, the    *)
(*              host's set of registered triggers and the wall clock.      *)
(*   SpecAlarmOps  the scheduler's operations with every outcome of the    *)
(*              host calls and the app state, at one instant of the clock. *)
(*   SpecAlarmCalls  the same in a scenario of fewer operations.           *)
(*   SpecRestart   the same across remounts of the component and restarts  *)
(*              of the process.                                            *)
(*   SpecTask   one run of the background task on a list of the host.      *)
(*   SpecAudio  the routine with its sounds and the podcast                *)
(*              player with its buttons.                                   *)
(*   SpecSetup  the routine up to moveToPodcast, without the podcast       *)
(*              timers.                                                    *)
(*   SpecReentry  the same with one more startMyDay invocation, followed   *)
(*              up to its first await.                                     *)
(*   SpecPlayer the podcast player: feed, loads and sounds under control   *)
(*              changes and button presses, every call getting its answer. *)
(*   SpecBackground  the background task run amid foreground activity:     *)
(*              the scheduler's operations, a routine run and the player.  *)
(*   SpecFiring the alarm from registration to firing and after.           *)
(*   SpecOngoing  the alarm notification and the ongoing notifications of  *)
(*              the runs reaching the listeners.                           *)
(*   SpecFetch  one fetchAndProcessEvents call on every set of answers.    *)
(*                                                                         *)
(* React closures are modelled by what they capture: an asynchronous       *)
(* operation or a timer carries the state values of the render in which    *)
(* it was created, and reads those, never the current state. A handler     *)
(* and the render it causes, with the effect cleanups of that render, are  *)
(* one step; every await of an asynchronous function that changes what is  *)
(* modelled is a step of its own.                                          *)
(***************************************************************************)
EXTENDS Integers, FiniteSets, Sequences, TLC

\* ---------------------------------------------------------------- bounds
\* startMyDay invocations (routine runs) a morning holds at most; SpecReentry
\* makes them all.
MaxRuns == 3
\* startMyDay invocations the specifications of the routine follow to their end.
MaxStarts == 2
\* startMyDay invocations, scheduler operations and calls of the player
\* followed together with the answers of the podcast player.
MaxJointRuns == 1
MaxJointOps == 1
MaxJointCalls == 3
\* Ticks (picker slots) in a calendar day, and the last instant of the clock.
TicksPerDay == 2
MaxNow == 5
\* Asynchronous scheduleAlarm / cancelAlarm / permission operations started:
\* MaxOps where three calls overlap, MaxShortOps in the scenarios of two.
MaxOps == 3
MaxShortOps == 2
\* Calls the buttons of the podcast player (or a parent toggling its control)
\* may start: fetchLatestEpisode, playPodcast, pausePodcast.
MaxPlayerOps == 4
\* Calendars the device returns to fetchAndProcessEvents.
MaxCalendars == 2
\* Scheduled notifications the host returns to the background task.
MaxTriggers == 2

Runs == 1..MaxRuns
TimesOfDay == 0..(TicksPerDay - 1)

\* ------------------------------------------------------ routine variables
VARIABLES
  step,              \* useState step
  isSpeaking,        \* useState isSpeaking
  isLoading,         \* useState isLoading
  error,             \* useState error: "null" or the kind of the message
  calendarSummary,   \* useState calendarSummary: "null" or "summary"
  podcastControl,    \* useState podcastControl: "undefined" or "play"
  speechTimeoutRef,  \* speechTimeoutRef.current: 0 (null) or the run whose timer it holds
  runs,              \* number of startMyDay invocations so far; the last is the current run
  runLimit,          \* number of startMyDay invocations this morning is followed for
  phase,             \* per run: position of the startMyDay invocation / its calendar fetch:
                     \* "none", "awaiting", "unloading", "presented", "prepared", "tracked",
                     \* "priming", "fetching", "responded", "failed", "aborted"
  capStep,           \* per run: `step` as captured by the handleCalendarResponse closure
  safety,            \* per run: the 30 s safety timeout
  speechTimer,       \* per run: the 800 ms delayed speech start
  utter,             \* per run: the utterance given to Speech.speak: "none", "queued",
                     \* "started", "done", "error", "stopped" (dropped by Speech.stop(),
                     \* onStopped not yet delivered), "stop-reported"
  utterKind,         \* per run: which Speech.speak call made it
  speechQueue,       \* speech engine: utterances not finished, oldest first
  podTimers,         \* per run: pending 500 ms podcast-start timers
  notif,             \* the alarm notification: whether it fired, delivery of its two callbacks
  alarmEvents,       \* onTrigger invocations made for the fired alarm notification
  moves,             \* per run: moveToPodcast calls made by its callbacks and timers
  plays,             \* per run: setPodcastControl('play') calls made by its timers
  silentTrack,       \* per run: the looping sound its playBackgroundSilentTrack created,
                     \* at the host: "none" (not loaded), "playing" or "paused"
  activeSilentSound, \* activeSilentSound.current: 0 (null) or the run whose sound it holds
  unloading,         \* per run: the run whose sound its playBackgroundSilentTrack has
                     \* asked to unload and awaits (0: none)
  soundObj           \* per run: the priming sound of its startMyDay, at the host:
                     \* "none" (not loaded), "playing" or "paused" (loaded, not playing)

varsR == <<step, isSpeaking, isLoading, error, calendarSummary, podcastControl,
           speechTimeoutRef, runs, runLimit, phase, capStep, safety, speechTimer, utter,
           utterKind, speechQueue, podTimers, notif, alarmEvents,
           moves, plays, silentTrack, activeSilentSound, unloading, soundObj>>

\* The sounds of the orchestrator and the ref that holds one.
varsS == <<silentTrack, activeSilentSound, unloading, soundObj>>

\* -------------------------------------------------------- alarm variables
VARIABLES
  now,           \* the wall clock, in ticks
  isEnabled,     \* useState isEnabled
  hasPermission, \* useState hasPermission
  date,          \* useState date: the stored alarm Date, in ticks
  tempDate,      \* useState tempDate: the Date edited in the dialog
  dialogOpen,    \* useState dialogOpen
  notification,  \* useState notification: 0 (null) or the recorded identifier
  mountPerm,     \* the permission request of the mount effect
  scheduled,     \* the host: the registered triggers
  ops,           \* asynchronous operations in flight, oldest first
  started,       \* operations started so far
  opLimit,       \* operations that may be started in all
  nextId,        \* identifiers the host has handed out
  debugInfo,     \* useState debugInfo: "null" or the kind of the status text
  appState,      \* the host's AppState: "active" or "background"
  mountDate      \* `date` of the first render, as the mount effect's closures hold it

varsA == <<now, isEnabled, hasPermission, date, tempDate, dialogOpen, notification,
           mountPerm, scheduled, ops, started, opLimit, nextId, debugInfo, appState,
           mountDate>>

\* ------------------------------------------------- background task variables
VARIABLES
  taskPc,      \* the background task: "idle", "awaiting" (setAudioModeAsync) or "done"
  taskList,    \* what getAllScheduledNotificationsAsync returns to the task
  taskIdx,     \* the entry of taskList the loop stopped at
  taskCalls,   \* the audio calls the task has issued, in order
  taskError,   \* what threw inside the task's try block: "none", "query", "entry", "audio"
  taskResult   \* what the task gave the host: "none" (not yet), "NewData", "Failed", "thrown"

varsT == <<taskPc, taskList, taskIdx, taskCalls, taskError, taskResult>>

\* ------------------------------------------------- podcast player variables
VARIABLES
  latestEpisode,  \* useState latestEpisode: "null" or "url"
  sound,          \* useState sound: 0 (null) or the sound object held
  isPlaying,      \* useState isPlaying
  loading,        \* useState loading
  playerError,    \* useState error of the player: "null", "feed", "load", "play", "playback"
  loaded,         \* the audio module: the sound objects created and not unloaded
  audible,        \* the audio module: the loaded sound objects that are playing
  playerOps,      \* fetchLatestEpisode / playPodcast / pausePodcast calls in flight
  playerStarted,  \* fetchLatestEpisode / playPodcast / pausePodcast calls started so far
  playerLimit,    \* calls started so far beyond which no button press or control change is followed
  soundsMade      \* sound objects created so far

varsP == <<latestEpisode, sound, isPlaying, loading, playerError, loaded, audible,
           playerOps, playerStarted, playerLimit, soundsMade>>

\* ------------------------------------------- notifications the app presents
VARIABLES
  ongoing         \* per run, the ongoing notification startMyDay presents:
                  \* "none", "presented", "received" (by the listener), "tapped"

varsN == <<ongoing>>

\* ----------------------------------------------- one fetchAndProcessEvents call
VARIABLES
  fetchPc,        \* "idle", "permission", "calendars", "events", "request", "done"
  fetchIn,        \* what the host and the backend answer to this call
  fetchIdx,       \* the calendar the loop is at
  callbacks,      \* onApiResponse invocations made by this call
  fetchError,     \* useState error of CalendarFetcher
  fetchLoading    \* useState loading of CalendarFetcher

varsF == <<fetchPc, fetchIn, fetchIdx, callbacks, fetchError, fetchLoading>>

vars == <<varsR, varsA, varsT, varsP, varsN, varsF>>

InitRoutineUpTo(limit) ==
  /\ runLimit = limit
  /\ step = "idle"
  /\ isSpeaking = FALSE
  /\ isLoading = FALSE
  /\ error = "null"
  /\ calendarSummary = "null"
  /\ podcastControl = "undefined"
  /\ speechTimeoutRef = 0
  /\ runs = 0
  /\ phase = [r \in Runs |-> "none"]
  /\ capStep = [r \in Runs |-> "none"]
  /\ safety = [r \in Runs |-> "none"]
  /\ speechTimer = [r \in Runs |-> "none"]
  /\ utter = [r \in Runs |-> "none"]
  /\ utterKind = [r \in Runs |-> "none"]
  /\ speechQueue = <<>>
  /\ podTimers = [r \in Runs |-> 0]
  /\ notif = [fired |-> FALSE, received |-> FALSE, responded |-> FALSE]
  /\ alarmEvents = 0
  /\ moves = [r \in Runs |-> 0]
  /\ plays = [r \in Runs |-> 0]
  /\ silentTrack = [r \in Runs |-> "none"]
  /\ activeSilentSound = 0
  /\ unloading = [r \in Runs |-> 0]
  /\ soundObj = [r \in Runs |-> "none"]

\* ------------------------------------------------------------ helpers

\* The operations in flight without the i-th.
Without(q, i) == SubSeq(q, 1, i - 1) \o SubSeq(q, i + 1, Len(q))

\* A clearTimeout that is forgotten: the timer stays armed.
ClearTimeout_Forgotten(s, ref) == s

\* clearTimeout(speechTimeoutRef.current): cancels that timer if it is still armed.
ClearTimeout(s, ref) ==
  [r \in Runs |-> IF r = ref /\ s[r] = "armed" THEN "cleared" ELSE s[r]]

\* handleCalendarResponse: clearTimeout(speechTimeoutRef.current) when one is
\* held, then the 30 s timer of run r is armed.
ArmSafety(s, ref, r) == [ClearTimeout(s, ref) EXCEPT ![r] = "armed"]

\* Speech.stop(): the current and the queued utterances are dropped. The
\* engine reports each to its onStopped callback in a later turn.
StoppedUtterances(u) ==
  [r \in Runs |-> IF u[r] \in {"queued", "started"} THEN "stopped" ELSE u[r]]

\* The effect with deps [isSpeaking] has only a cleanup, which React runs
\* when a render commits another isSpeaking, with the values of the render
\* before (`was`): Speech.stop() when that render had isSpeaking true ...
CleanupUtter(was, is, u) == IF was /\ ~is THEN StoppedUtterances(u) ELSE u

CleanupQueue(was, is, q) == IF was /\ ~is THEN <<>> ELSE q

\* An effect cleanup that leaves the timers alone.
CleanupSafety_None(was, is, s, ref) == s

\* ... and clearTimeout(speechTimeoutRef.current) when the ref holds a timer
\* (the ref is read at cleanup time and keeps its handle).
CleanupSafety(was, is, s, ref) == IF was # is THEN ClearTimeout(s, ref) ELSE s


\* -------------------------------------------------------- podcast player

\* The player as mounted: every useState at its initial value, and the
\* fetchLatestEpisode of the mount effect in flight; button presses and control
\* changes are followed until `limit` calls have been started.
InitPlayerUpTo(limit) ==
  /\ playerLimit = limit
  /\ latestEpisode = "null"
  /\ sound = 0
  /\ isPlaying = FALSE
  /\ loading = TRUE
  /\ playerError = "null"
  /\ loaded = {}
  /\ audible = {}
  /\ playerOps = <<[kind |-> "fetch", snd |-> 0, made |-> 0]>>
  /\ playerStarted = 1
  /\ soundsMade = 0

\* fetchLatestEpisode up to its first await: setLoading(true), setError(null),
\* the feed is requested.
fetchLatestEpisode ==
  /\ playerStarted' = playerStarted + 1
  /\ playerOps' = Append(playerOps, [kind |-> "fetch", snd |-> 0, made |-> 0])
  /\ loading' = TRUE
  /\ playerError' = "null"
  /\ UNCHANGED <<latestEpisode, sound, isPlaying, loaded, audible, soundsMade, playerLimit>>

\* playPodcast of the current render, up to its first await: with a sound held
\* it asks for its status; with an episode URL it goes into loadAndPlaySound
\* (setLoading(true)); with neither it calls fetchLatestEpisode and nothing else.
playPodcast ==
  IF sound # 0
    THEN /\ playerStarted' = playerStarted + 1
         /\ playerOps' = Append(playerOps, [kind |-> "resume", snd |-> sound, made |-> 0])
         /\ UNCHANGED <<latestEpisode, sound, isPlaying, loading, playerError, loaded,
                        audible, soundsMade, playerLimit>>
    ELSE IF latestEpisode = "url"
      THEN /\ playerStarted' = playerStarted + 1
           /\ playerOps' = Append(playerOps, [kind |-> "load", snd |-> 0, made |-> 0])
           /\ loading' = TRUE
           /\ UNCHANGED <<latestEpisode, sound, isPlaying, playerError, loaded, audible,
                          soundsMade, playerLimit>>
      ELSE fetchLatestEpisode

\* pausePodcast of the current render, up to its first await: with a sound
\* held it asks for its status, with none it does nothing.
pausePodcast ==
  IF sound # 0
    THEN /\ playerStarted' = playerStarted + 1
         /\ playerOps' = Append(playerOps, [kind |-> "pause", snd |-> sound, made |-> 0])
         /\ UNCHANGED <<latestEpisode, sound, isPlaying, loading, playerError, loaded,
                        audible, soundsMade, playerLimit>>
    ELSE UNCHANGED varsP

\* The parent renders the player with another controlState; the effect on
\* controlState runs handleControlChange: playPodcast when it is 'play' and
\* isPlaying is false, nothing when it is undefined.
ControlBecomes(c) ==
  /\ c # podcastControl
  /\ playerStarted < playerLimit
  /\ podcastControl' = c
  /\ IF c = "play" /\ ~isPlaying THEN playPodcast ELSE UNCHANGED varsP
  /\ UNCHANGED <<step, isSpeaking, isLoading, error, calendarSummary,
                 speechTimeoutRef, runs, runLimit, phase, capStep, safety, speechTimer, utter,
                 utterKind, speechQueue, podTimers, notif, alarmEvents, moves, plays,
                 varsS>>
  /\ UNCHANGED <<varsA, varsT, varsN, varsF>>

\* The buttons are rendered when the player is not loading and shows no error.
ButtonsShown == ~loading /\ playerError = "null"

\* The "Play Up First" button, rendered while isPlaying is false.
PressPlay ==
  /\ ButtonsShown
  /\ ~isPlaying
  /\ playerStarted < playerLimit
  /\ playPodcast
  /\ UNCHANGED <<varsR, varsA, varsT, varsN, varsF>>

\* The "Pause" button, rendered while isPlaying is true.
PressPause ==
  /\ ButtonsShown
  /\ isPlaying
  /\ playerStarted < playerLimit
  /\ pausePodcast
  /\ UNCHANGED <<varsR, varsA, varsT, varsN, varsF>>

\* The "Refresh" button: fetchLatestEpisode.
PressRefresh ==
  /\ ButtonsShown
  /\ playerStarted < playerLimit
  /\ fetchLatestEpisode
  /\ UNCHANGED <<varsR, varsA, varsT, varsN, varsF>>

\* fetchLatestEpisode: the feed holds an audio enclosure, setLatestEpisode(url).
FeedResolves(i) ==
  /\ playerOps[i].kind = "fetch"
  /\ latestEpisode' = "url"
  /\ loading' = FALSE
  /\ playerOps' = Without(playerOps, i)
  /\ UNCHANGED <<sound, isPlaying, playerError, loaded, audible, playerStarted, playerLimit, soundsMade>>
  /\ UNCHANGED <<varsR, varsA, varsT, varsN, varsF>>

\* fetchLatestEpisode: the request throws or the feed holds no audio: setError.
FeedFails(i) ==
  /\ playerOps[i].kind = "fetch"
  /\ playerError' = "feed"
  /\ loading' = FALSE
  /\ playerOps' = Without(playerOps, i)
  /\ UNCHANGED <<latestEpisode, sound, isPlaying, loaded, audible, playerStarted, playerLimit, soundsMade>>
  /\ UNCHANGED <<varsR, varsA, varsT, varsN, varsF>>

\* playPodcast with a sound held, sound.getStatusAsync() resolves: playAsync
\* is called when the sound is loaded; otherwise loadAndPlaySound begins
\* (setLoading(true)).
ResumeStatus(i) ==
  /\ playerOps[i].kind = "resume"
  /\ IF playerOps[i].snd \in loaded
       THEN /\ playerOps' = [playerOps EXCEPT ![i] = [@ EXCEPT !.kind = "play"]]
            /\ UNCHANGED loading
       ELSE /\ playerOps' = [playerOps EXCEPT ![i] = [@ EXCEPT !.kind = "load"]]
            /\ loading' = TRUE
  /\ UNCHANGED <<latestEpisode, sound, isPlaying, playerError, loaded, audible,
                 playerStarted, playerLimit, soundsMade>>
  /\ UNCHANGED <<varsR, varsA, varsT, varsN, varsF>>

\* playPodcast with a sound held, sound.playAsync() resolves: the sound plays,
\* setIsPlaying(true).
ResumeCompletes(i) ==
  /\ playerOps[i].kind = "play"
  /\ playerOps[i].snd \in loaded
  /\ audible' = audible \cup {playerOps[i].snd}
  /\ isPlaying' = TRUE
  /\ playerOps' = Without(playerOps, i)
  /\ UNCHANGED <<latestEpisode, sound, loading, playerError, loaded, playerStarted, playerLimit,
                 soundsMade>>
  /\ UNCHANGED <<varsR, varsA, varsT, varsN, varsF>>

\* playPodcast with a sound held, getStatusAsync or playAsync rejects: the
\* catch of playPodcast, setError('Failed to play podcast'), setLoading(false).
ResumeFails(i) ==
  /\ playerOps[i].kind \in {"resume", "play"}
  /\ playerError' = "play"
  /\ loading' = FALSE
  /\ playerOps' = Without(playerOps, i)
  /\ UNCHANGED <<latestEpisode, sound, isPlaying, loaded, audible, playerStarted, playerLimit, soundsMade>>
  /\ UNCHANGED <<varsR, varsA, varsT, varsN, varsF>>

\* pausePodcast, sound.getStatusAsync() resolves: pauseAsync is called when the
\* sound is loaded and playing, otherwise the call ends.
PauseStatus(i) ==
  /\ playerOps[i].kind = "pause"
  /\ playerOps' = IF playerOps[i].snd \in audible
                    THEN [playerOps EXCEPT ![i] = [@ EXCEPT !.kind = "pausing"]]
                    ELSE Without(playerOps, i)
  /\ UNCHANGED <<latestEpisode, sound, isPlaying, loading, playerError, loaded, audible,
                 playerStarted, playerLimit, soundsMade>>
  /\ UNCHANGED <<varsR, varsA, varsT, varsN, varsF>>

\* pausePodcast, sound.pauseAsync() resolves: the sound is paused,
\* setIsPlaying(false).
PauseCompletes(i) ==
  /\ playerOps[i].kind = "pausing"
  /\ playerOps[i].snd \in loaded
  /\ audible' = audible \ {playerOps[i].snd}
  /\ isPlaying' = FALSE
  /\ playerOps' = Without(playerOps, i)
  /\ UNCHANGED <<latestEpisode, sound, loading, playerError, loaded, playerStarted, playerLimit,
                 soundsMade>>
  /\ UNCHANGED <<varsR, varsA, varsT, varsN, varsF>>

\* pausePodcast, getStatusAsync or pauseAsync rejects: nothing catches it and
\* no state is set.
PauseFails(i) ==
  /\ playerOps[i].kind \in {"pause", "pausing"}
  /\ playerOps' = Without(playerOps, i)
  /\ UNCHANGED <<latestEpisode, sound, isPlaying, loading, playerError, loaded, audible,
                 playerStarted, playerLimit, soundsMade>>
  /\ UNCHANGED <<varsR, varsA, varsT, varsN, varsF>>

\* loadAndPlaySound: the sound of its render, if any, is unloaded, the audio
\* mode is set and Audio.Sound.createAsync with shouldPlay resolves: the audio
\* module holds a new sound, playing.
LoadCreates(i) ==
  /\ playerOps[i].kind = "load"
  /\ playerOps[i].made = 0
  /\ soundsMade' = soundsMade + 1
  /\ loaded' = (loaded \ {playerOps[i].snd}) \cup {soundsMade + 1}
  /\ audible' = (audible \ {playerOps[i].snd}) \cup {soundsMade + 1}
  /\ playerOps' = [playerOps EXCEPT ![i] = [@ EXCEPT !.made = soundsMade + 1]]
  /\ UNCHANGED <<latestEpisode, sound, isPlaying, loading, playerError, playerStarted, playerLimit>>
  /\ UNCHANGED <<varsR, varsA, varsT, varsN, varsF>>

\* loadAndPlaySound after createAsync: setSound(newSound), setIsPlaying(true),
\* setLoading(false); the cleanup of the effect on `sound` unloads the sound
\* held before.
LoadSettles(i) ==
  /\ playerOps[i].kind = "load"
  /\ playerOps[i].made # 0
  /\ sound' = playerOps[i].made
  /\ isPlaying' = TRUE
  /\ loading' = FALSE
  /\ loaded' = loaded \ ({sound} \ {playerOps[i].made})
  /\ audible' = audible \ ({sound} \ {playerOps[i].made})
  /\ playerOps' = Without(playerOps, i)
  /\ UNCHANGED <<latestEpisode, playerError, playerStarted, playerLimit, soundsMade>>
  /\ UNCHANGED <<varsR, varsA, varsT, varsN, varsF>>

\* loadAndPlaySound: unloading, the audio mode or createAsync throws: setError.
LoadFails(i) ==
  /\ playerOps[i].kind = "load"
  /\ playerOps[i].made = 0
  /\ playerError' = "load"
  /\ loading' = FALSE
  /\ playerOps' = Without(playerOps, i)
  /\ UNCHANGED <<latestEpisode, sound, isPlaying, loaded, audible, playerStarted, playerLimit, soundsMade>>
  /\ UNCHANGED <<varsR, varsA, varsT, varsN, varsF>>

\* onPlaybackStatusUpdate with the status of a loaded sound:
\* setIsPlaying(status.isPlaying).
onPlaybackStatusUpdate(n) ==
  /\ n \in loaded
  /\ isPlaying # (n \in audible)
  /\ isPlaying' = (n \in audible)
  /\ UNCHANGED <<latestEpisode, sound, loading, playerError, loaded, audible, playerOps,
                 playerStarted, playerLimit, soundsMade>>
  /\ UNCHANGED <<varsR, varsA, varsT, varsN, varsF>>

\* A playing sound reaches its end: onPlaybackStatusUpdate with didJustFinish,
\* setIsPlaying(status.isPlaying) and setIsPlaying(false).
SoundFinishes(n) ==
  /\ n \in audible
  /\ audible' = audible \ {n}
  /\ isPlaying' = FALSE
  /\ UNCHANGED <<latestEpisode, sound, loading, playerError, loaded, playerOps,
                 playerStarted, playerLimit, soundsMade>>
  /\ UNCHANGED <<varsR, varsA, varsT, varsN, varsF>>

\* The playback of a sound breaks: onPlaybackStatusUpdate with a status that is
\* not loaded and holds an error (isInitializing is false in every render that
\* can create a sound): setError('Playback error: ...').
PlaybackError(n) ==
  /\ n \in loaded
  /\ loaded' = loaded \ {n}
  /\ audible' = audible \ {n}
  /\ playerError' = "playback"
  /\ UNCHANGED <<latestEpisode, sound, isPlaying, loading, playerOps, playerStarted, playerLimit,
                 soundsMade>>
  /\ UNCHANGED <<varsR, varsA, varsT, varsN, varsF>>

\* An asynchronous call of the player gets its answer.
PlayerOpCompletes ==
  \/ \E i \in 1..Len(playerOps) : FeedResolves(i)
  \/ \E i \in 1..Len(playerOps) : FeedFails(i)
  \/ \E i \in 1..Len(playerOps) : ResumeStatus(i)
  \/ \E i \in 1..Len(playerOps) : ResumeCompletes(i)
  \/ \E i \in 1..Len(playerOps) : ResumeFails(i)
  \/ \E i \in 1..Len(playerOps) : PauseStatus(i)
  \/ \E i \in 1..Len(playerOps) : PauseCompletes(i)
  \/ \E i \in 1..Len(playerOps) : PauseFails(i)
  \/ \E i \in 1..Len(playerOps) : LoadCreates(i)
  \/ \E i \in 1..Len(playerOps) : LoadSettles(i)
  \/ \E i \in 1..Len(playerOps) : LoadFails(i)

\* The player by itself: its buttons, the answers to its calls and the
\* playback status updates of the host.
PlayerOwnStep ==
  \/ PressPlay
  \/ PressPause
  \/ PressRefresh
  \/ PlayerOpCompletes
  \/ \E n \in loaded : onPlaybackStatusUpdate(n)
  \/ \E n \in audible : SoundFinishes(n)
  \/ \E n \in loaded : PlaybackError(n)

\* The player under a parent that changes its controlState.
PlayerStep ==
  \/ \E c \in {"undefined", "play"} : ControlBecomes(c)
  \/ PlayerOwnStep

\* ------------------------------------------------------- wake dispatcher

\* The scheduled alarm notification reaches its time and the host delivers it.
AlarmFires ==
  /\ ~notif.fired
  /\ notif' = [notif EXCEPT !.fired = TRUE]
  /\ UNCHANGED <<step, isSpeaking, isLoading, error, calendarSummary, podcastControl,
                 speechTimeoutRef, runs, runLimit, phase, capStep, safety, speechTimer, utter,
                 utterKind, speechQueue, podTimers, alarmEvents, moves, plays,
                 varsS>>
  /\ UNCHANGED <<varsA, varsT, varsP, varsN, varsF>>

\* content.data of the alarm notification scheduleAlarm registers, and of the
\* ongoing notification createOngoingNotification presents (no action field).
AlarmPayload == [action |-> "startMyDay", type |-> "alarm"]
OngoingPayload == [action |-> "undefined", type |-> "ongoing-alarm"]

\* A listener that takes every notification for the alarm.
TriggersRoutine_Any(data) == TRUE

\* The test of both notification listeners: data?.action === "startMyDay".
TriggersRoutine(data) == data.action = "startMyDay"

\* startMyDay up to its first await: the reset section. isSpeaking is the one
\* of the current render (startMyDayRef.current is assigned on every render);
\* Speech.stop() leaves it as it is.
startMyDay ==
  /\ runs < runLimit
  /\ runs' = runs + 1
  /\ isLoading' = TRUE
  /\ error' = "null"
  /\ step' = "fetching-calendar"
  /\ podcastControl' = "undefined"
  /\ IF isSpeaking
       THEN /\ utter' = StoppedUtterances(utter)
            /\ speechQueue' = <<>>
       ELSE UNCHANGED <<utter, speechQueue>>
  /\ safety' = ClearTimeout(safety, speechTimeoutRef)
  /\ speechTimeoutRef' = 0
  /\ phase' = [phase EXCEPT ![runs + 1] = "awaiting"]
  /\ UNCHANGED <<isSpeaking, calendarSummary, capStep, speechTimer, utterKind, podTimers,
                 moves, plays, varsS, runLimit>>

\* handleAlarmTrigger: the onTrigger prop of Alarm; startMyDayRef.current is the
\* mounted StartMyDay.
handleAlarmTrigger ==
  /\ alarmEvents' = alarmEvents + 1
  /\ startMyDay

\* Notifications.addNotificationReceivedListener callback, data.action = "startMyDay".
NotificationReceived ==
  /\ notif.fired
  /\ ~notif.received
  /\ TriggersRoutine(AlarmPayload)
  /\ notif' = [notif EXCEPT !.received = TRUE]
  /\ handleAlarmTrigger
  /\ UNCHANGED <<varsA, varsT, varsP, varsN, varsF>>

\* Notifications.addNotificationResponseReceivedListener callback (the user taps).
NotificationResponse ==
  /\ notif.fired
  /\ ~notif.responded
  /\ TriggersRoutine(AlarmPayload)
  /\ notif' = [notif EXCEPT !.responded = TRUE]
  /\ handleAlarmTrigger
  /\ UNCHANGED <<varsA, varsT, varsP, varsN, varsF>>

\* The "Start My Day Right" button, disabled while isLoading || isSpeaking.
PressStartMyDay ==
  /\ ~(isLoading \/ isSpeaking)
  /\ startMyDay
  /\ UNCHANGED <<notif, alarmEvents>>
  /\ UNCHANGED <<varsA, varsT, varsP, varsN, varsF>>

\* ------------------------------------------------ ongoing notification

InitNotify == ongoing = [r \in Runs |-> "none"]

\* startMyDay, `await createOngoingNotification()` resolves: the host shows
\* the ongoing notification of run r, and playBackgroundSilentTrack begins:
\* with a sound in activeSilentSound.current its unloadAsync is called,
\* otherwise Audio.setAudioModeAsync.
OngoingPresented(r) ==
  /\ phase[r] = "awaiting"
  /\ ongoing[r] = "none"
  /\ ongoing' = [ongoing EXCEPT ![r] = "presented"]
  /\ phase' = [phase EXCEPT ![r] = IF activeSilentSound # 0 THEN "unloading" ELSE "presented"]
  /\ unloading' = [unloading EXCEPT ![r] = activeSilentSound]
  /\ UNCHANGED <<step, isSpeaking, isLoading, error, calendarSummary, podcastControl,
                 speechTimeoutRef, runs, runLimit, capStep, safety, speechTimer, utter, utterKind,
                 speechQueue, podTimers, notif, alarmEvents, moves, plays,
                 silentTrack, activeSilentSound, soundObj>>
  /\ UNCHANGED <<varsA, varsT, varsP, varsF>>

\* startMyDay, `await createOngoingNotification()` rejects (the channel call
\* or presentNotificationAsync): nothing catches it, startMyDay ends there.
\* No fetch is issued and isLoading stays true.
OngoingRejected(r) ==
  /\ phase[r] = "awaiting"
  /\ phase' = [phase EXCEPT ![r] = "aborted"]
  /\ UNCHANGED <<step, isSpeaking, isLoading, error, calendarSummary, podcastControl,
                 speechTimeoutRef, runs, runLimit, capStep, safety, speechTimer, utter, utterKind,
                 speechQueue, podTimers, notif, alarmEvents, moves, plays,
                 varsS>>
  /\ UNCHANGED <<varsA, varsT, varsP, varsN, varsF>>

\* What a notification listener does with the ongoing notification: onTrigger
\* when the payload passes its test, nothing otherwise.
OngoingDelivered ==
  IF TriggersRoutine(OngoingPayload)
    THEN handleAlarmTrigger /\ UNCHANGED notif
    ELSE UNCHANGED varsR

\* The received listener gets the ongoing notification of run r (the app is
\* in the foreground when it is presented).
OngoingReceived(r) ==
  /\ ongoing[r] = "presented"
  /\ ongoing' = [ongoing EXCEPT ![r] = "received"]
  /\ OngoingDelivered
  /\ UNCHANGED <<varsA, varsT, varsP, varsF>>

\* The user taps the ongoing notification of run r: the response listener.
OngoingTapped(r) ==
  /\ ongoing[r] \in {"presented", "received"}
  /\ ongoing' = [ongoing EXCEPT ![r] = "tapped"]
  /\ OngoingDelivered
  /\ UNCHANGED <<varsA, varsT, varsP, varsF>>

\* --------------------------------------------------------- orchestrator

\* unloadAsync of the sound of run n: the host no longer holds it.
Unloaded(s, n) == [s EXCEPT ![n] = "none"]

\* Audio.setIsEnabledAsync(false): every playing sound of these is paused.
Paused(s) == [r \in Runs |-> IF s[r] = "playing" THEN "paused" ELSE s[r]]

\* playBackgroundSilentTrack of run r, activeSilentSound.current.unloadAsync()
\* resolves: the sound the ref held is unloaded (the ref keeps it);
\* Audio.setAudioModeAsync is called.
SilentTrackUnloads(r) ==
  /\ phase[r] = "unloading"
  /\ phase' = [phase EXCEPT ![r] = "presented"]
  /\ silentTrack' = Unloaded(silentTrack, unloading[r])
  /\ unloading' = [unloading EXCEPT ![r] = 0]
  /\ UNCHANGED <<step, isSpeaking, isLoading, error, calendarSummary, podcastControl,
                 speechTimeoutRef, runs, runLimit, capStep, safety, speechTimer, utter, utterKind,
                 speechQueue, podTimers, notif, alarmEvents, moves, plays,
                 activeSilentSound, soundObj>>
  /\ UNCHANGED <<varsA, varsT, varsP, varsN, varsF>>

\* playBackgroundSilentTrack of run r, Audio.setAudioModeAsync resolves:
\* Audio.Sound.createAsync is called.
SilentTrackPrepares(r) ==
  /\ phase[r] = "presented"
  /\ phase' = [phase EXCEPT ![r] = "prepared"]
  /\ UNCHANGED <<step, isSpeaking, isLoading, error, calendarSummary, podcastControl,
                 speechTimeoutRef, runs, runLimit, capStep, safety, speechTimer, utter, utterKind,
                 speechQueue, podTimers, notif, alarmEvents, moves, plays, varsS>>
  /\ UNCHANGED <<varsA, varsT, varsP, varsN, varsF>>

\* Audio.Sound.createAsync(silent.mp3, {isLooping, shouldPlay}) of run r
\* resolves: its looping sound plays and activeSilentSound.current holds it;
\* startMyDay goes on to its audio initialisation.
SilentTrackStarts(r) ==
  /\ phase[r] = "prepared"
  /\ phase' = [phase EXCEPT ![r] = "tracked"]
  /\ silentTrack' = [silentTrack EXCEPT ![r] = "playing"]
  /\ activeSilentSound' = r
  /\ UNCHANGED <<step, isSpeaking, isLoading, error, calendarSummary, podcastControl,
                 speechTimeoutRef, runs, runLimit, capStep, safety, speechTimer, utter, utterKind,
                 speechQueue, podTimers, notif, alarmEvents, moves, plays,
                 unloading, soundObj>>
  /\ UNCHANGED <<varsA, varsT, varsP, varsN, varsF>>

\* An await of playBackgroundSilentTrack rejects (caught and logged): no new
\* sound, the ref keeps what it held; a rejected unloadAsync may or may not
\* have unloaded the sound. startMyDay goes on to its audio initialisation.
SilentTrackFails(r) ==
  /\ phase[r] \in {"unloading", "presented", "prepared"}
  /\ phase' = [phase EXCEPT ![r] = "tracked"]
  /\ \E stopped \in BOOLEAN :
       silentTrack' = IF stopped /\ phase[r] = "unloading"
                        THEN Unloaded(silentTrack, unloading[r]) ELSE silentTrack
  /\ unloading' = [unloading EXCEPT ![r] = 0]
  /\ UNCHANGED <<step, isSpeaking, isLoading, error, calendarSummary, podcastControl,
                 speechTimeoutRef, runs, runLimit, capStep, safety, speechTimer, utter, utterKind,
                 speechQueue, podTimers, notif, alarmEvents, moves, plays,
                 activeSilentSound, soundObj>>
  /\ UNCHANGED <<varsA, varsT, varsP, varsN, varsF>>

\* The audio initialisation of startMyDay: Audio.setIsEnabledAsync(true) and
\* Audio.setAudioModeAsync have resolved and soundObj.loadAsync(silent.mp3)
\* resolves: the priming sound of run r is loaded and does not play;
\* soundObj.playAsync() is called.
PrimingLoads(r) ==
  /\ phase[r] = "tracked"
  /\ soundObj[r] = "none"
  /\ soundObj' = [soundObj EXCEPT ![r] = "paused"]
  /\ UNCHANGED <<step, isSpeaking, isLoading, error, calendarSummary, podcastControl,
                 speechTimeoutRef, runs, runLimit, phase, capStep, safety, speechTimer, utter,
                 utterKind, speechQueue, podTimers, notif, alarmEvents, moves, plays,
                 silentTrack, activeSilentSound, unloading>>
  /\ UNCHANGED <<varsA, varsT, varsP, varsN, varsF>>

\* soundObj.playAsync() of run r resolves: its priming sound plays; the 300 ms
\* delay begins.
PrimingPlays(r) ==
  /\ phase[r] = "tracked"
  /\ soundObj[r] = "paused"
  /\ phase' = [phase EXCEPT ![r] = "priming"]
  /\ soundObj' = [soundObj EXCEPT ![r] = "playing"]
  /\ UNCHANGED <<step, isSpeaking, isLoading, error, calendarSummary, podcastControl,
                 speechTimeoutRef, runs, runLimit, capStep, safety, speechTimer, utter, utterKind,
                 speechQueue, podTimers, notif, alarmEvents, moves, plays,
                 silentTrack, activeSilentSound, unloading>>
  /\ UNCHANGED <<varsA, varsT, varsP, varsN, varsF>>

\* startMyDay after its audio initialisation: the 300 ms have passed and
\* soundObj.unloadAsync() resolves, then
\* calendarFetcherRef.current.fetchAndProcessEvents().
\* The CalendarFetcher of the latest render is called, whose onApiResponse is the
\* handleCalendarResponse of that render, closed over that render's `step`.
FetchIssue(r) ==
  /\ phase[r] = "priming"
  /\ phase' = [phase EXCEPT ![r] = "fetching"]
  /\ capStep' = [capStep EXCEPT ![r] = step]
  /\ soundObj' = Unloaded(soundObj, r)
  /\ UNCHANGED <<step, isSpeaking, isLoading, error, calendarSummary, podcastControl,
                 speechTimeoutRef, runs, runLimit, safety, speechTimer, utter, utterKind,
                 speechQueue, podTimers, notif, alarmEvents, moves, plays,
                 silentTrack, activeSilentSound, unloading>>
  /\ UNCHANGED <<varsA, varsT, varsP, varsN, varsF>>

\* fetchAndProcessEvents got an OK response: onApiResponse = handleCalendarResponse.
\* The 30 s timer is armed inside the handler; when the render that follows
\* changes isSpeaking, the effect cleanup clears the timer the ref then holds.
handleCalendarResponse(r) ==
  /\ phase[r] = "fetching"
  /\ phase' = [phase EXCEPT ![r] = "responded"]
  /\ calendarSummary' = "summary"
  /\ isLoading' = FALSE
  /\ step' = "speaking"
  /\ isSpeaking' = TRUE
  /\ safety' = CleanupSafety(isSpeaking, TRUE, ArmSafety(safety, speechTimeoutRef, r), r)
  /\ speechTimeoutRef' = r
  /\ speechTimer' = [speechTimer EXCEPT ![r] = "pending"]
  /\ UNCHANGED <<error, podcastControl, runs, runLimit, capStep, utter, utterKind, speechQueue,
                 podTimers, notif, alarmEvents, moves, plays,
                 varsS>>
  /\ UNCHANGED <<varsA, varsT, varsP, varsN, varsF>>

\* fetchAndProcessEvents failed (permission denied, events threw, request threw or
\* was not OK): every path is caught inside it, the promise resolves and
\* onApiResponse is not called, so the .catch of startMyDay never runs.
FetchFails(r) ==
  /\ phase[r] = "fetching"
  /\ phase' = [phase EXCEPT ![r] = "failed"]
  /\ UNCHANGED <<step, isSpeaking, isLoading, error, calendarSummary, podcastControl,
                 speechTimeoutRef, runs, runLimit, capStep, safety, speechTimer, utter, utterKind,
                 speechQueue, podTimers, notif, alarmEvents, moves, plays,
                 varsS>>
  /\ UNCHANGED <<varsA, varsT, varsP, varsN, varsF>>

\* moveToPodcast called by a callback or timer of run r: what it changes.
moveToPodcast(r) ==
  /\ step' = "playing-podcast"
  /\ podTimers' = [podTimers EXCEPT ![r] = @ + 1]
  /\ moves' = [moves EXCEPT ![r] = @ + 1]

\* The 30 s safety timeout of run r elapses; its callback reads the captured step.
SafetyTimeoutFires(r) ==
  /\ safety[r] = "armed"
  /\ IF capStep[r] = "speaking"
       THEN /\ utter' = StoppedUtterances(utter)
            /\ speechQueue' = <<>>
            /\ isSpeaking' = FALSE
            /\ safety' = CleanupSafety(isSpeaking, FALSE, [safety EXCEPT ![r] = "fired"],
                                       speechTimeoutRef)
            /\ moveToPodcast(r)
       ELSE /\ safety' = [safety EXCEPT ![r] = "fired"]
            /\ UNCHANGED <<utter, speechQueue, isSpeaking, step, podTimers, moves>>
  /\ UNCHANGED <<isLoading, error, calendarSummary, podcastControl, speechTimeoutRef,
                 runs, runLimit, phase, capStep, speechTimer, utterKind, notif, alarmEvents, plays,
                 varsS>>
  /\ UNCHANGED <<varsA, varsT, varsP, varsN, varsF>>

\* Speech callback onStart of the utterance at the head of the engine's queue
\* (the fallback call passes none): setIsSpeaking(true).
OnStart(r) ==
  /\ speechQueue # <<>>
  /\ r = Head(speechQueue)
  /\ utter[r] = "queued"
  /\ utter' = [utter EXCEPT ![r] = "started"]
  /\ isSpeaking' = IF utterKind[r] = "normal" THEN TRUE ELSE isSpeaking
  /\ safety' = CleanupSafety(isSpeaking, isSpeaking', safety, speechTimeoutRef)
  /\ UNCHANGED <<step, isLoading, error, calendarSummary, podcastControl,
                 speechTimeoutRef, runs, runLimit, phase, capStep, speechTimer, utterKind,
                 speechQueue, podTimers, notif, alarmEvents, moves, plays,
                 varsS>>
  /\ UNCHANGED <<varsA, varsT, varsP, varsN, varsF>>

\* Speech callback onDone. On the normal path setIsSpeaking(false), the timer
\* held is cleared and the ref nulled; the effect cleanup follows the render.
OnDone(r) ==
  /\ speechQueue # <<>>
  /\ r = Head(speechQueue)
  /\ IF utterKind[r] = "normal"
       THEN /\ isSpeaking' = FALSE
            /\ utter' = CleanupUtter(isSpeaking, FALSE, [utter EXCEPT ![r] = "done"])
            /\ speechQueue' = CleanupQueue(isSpeaking, FALSE, Tail(speechQueue))
            /\ safety' = ClearTimeout(safety, speechTimeoutRef)
            /\ speechTimeoutRef' = 0
       ELSE /\ utter' = [utter EXCEPT ![r] = "done"]
            /\ speechQueue' = Tail(speechQueue)
            /\ UNCHANGED <<isSpeaking, safety, speechTimeoutRef>>
  /\ moveToPodcast(r)
  /\ UNCHANGED <<isLoading, error, calendarSummary, podcastControl, runs, runLimit, phase,
                 capStep, speechTimer, utterKind, notif, alarmEvents, plays,
                 varsS>>
  /\ UNCHANGED <<varsA, varsT, varsP, varsN, varsF>>

\* Speech callback onError. On the normal path setError and
\* setIsSpeaking(false); the effect cleanup follows the render.
OnError(r) ==
  /\ speechQueue # <<>>
  /\ r = Head(speechQueue)
  /\ IF utterKind[r] = "normal"
       THEN /\ error' = "speech"
            /\ isSpeaking' = FALSE
            /\ utter' = CleanupUtter(isSpeaking, FALSE, [utter EXCEPT ![r] = "error"])
            /\ speechQueue' = CleanupQueue(isSpeaking, FALSE, Tail(speechQueue))
            /\ safety' = CleanupSafety(isSpeaking, FALSE, safety, speechTimeoutRef)
       ELSE /\ utter' = [utter EXCEPT ![r] = "error"]
            /\ speechQueue' = Tail(speechQueue)
            /\ UNCHANGED <<error, isSpeaking, safety>>
  /\ moveToPodcast(r)
  /\ UNCHANGED <<isLoading, calendarSummary, podcastControl, speechTimeoutRef, runs, runLimit,
                 phase, capStep, speechTimer, utterKind, notif, alarmEvents, plays,
                 varsS>>
  /\ UNCHANGED <<varsA, varsT, varsP, varsN, varsF>>

\* Speech callback onStopped of an utterance Speech.stop() dropped (the
\* fallback call passes none): setIsSpeaking(false) and nothing else; the
\* effect cleanup follows the render.
OnStopped(r) ==
  /\ utter[r] = "stopped"
  /\ utterKind[r] = "normal"
  /\ isSpeaking' = FALSE
  /\ utter' = CleanupUtter(isSpeaking, FALSE, [utter EXCEPT ![r] = "stop-reported"])
  /\ speechQueue' = CleanupQueue(isSpeaking, FALSE, speechQueue)
  /\ safety' = CleanupSafety(isSpeaking, FALSE, safety, speechTimeoutRef)
  /\ UNCHANGED <<step, isLoading, error, calendarSummary, podcastControl,
                 speechTimeoutRef, runs, runLimit, phase, capStep, speechTimer, utterKind,
                 podTimers, notif, alarmEvents, moves, plays,
                 varsS>>
  /\ UNCHANGED <<varsA, varsT, varsP, varsN, varsF>>

\* A 500 ms timer armed by moveToPodcast elapses: setPodcastControl('play'); when
\* that changes controlState, the effect of PodcastPlayer calls playPodcast
\* unless its own isPlaying state holds (the state of the component, which
\* follows the host only through setIsPlaying and the playback status updates).
PodcastTimerFires(r) ==
  /\ podTimers[r] > 0
  /\ podTimers' = [podTimers EXCEPT ![r] = @ - 1]
  /\ podcastControl' = "play"
  /\ plays' = [plays EXCEPT ![r] = @ + 1]
  /\ IF podcastControl # "play" /\ ~isPlaying THEN playPodcast ELSE UNCHANGED varsP
  /\ UNCHANGED <<step, isSpeaking, isLoading, error, calendarSummary, speechTimeoutRef,
                 runs, runLimit, phase, capStep, safety, speechTimer, utter, utterKind,
                 speechQueue, notif, alarmEvents, moves, varsS>>
  /\ UNCHANGED <<varsA, varsT, varsN, varsF>>

\* ------------------------------------------- audio setup, await by await

\* Where the 800 ms callback stands once the await it is at has resolved:
\* "disabled" after Audio.setIsEnabledAsync(false), "settled" after the 300 ms
\* delay, "enabled" after Audio.setIsEnabledAsync(true).
SetupStageAfter(stage) ==
  CASE stage = "pending" -> "disabled"
    [] stage = "disabled" -> "settled"
    [] stage = "settled" -> "enabled"

\* The 800 ms timer of run r elapses and Audio.setIsEnabledAsync(false)
\* resolves: every sound of the audio module is paused.
SetupDisables(r) ==
  /\ speechTimer[r] = "pending"
  /\ speechTimer' = [speechTimer EXCEPT ![r] = SetupStageAfter("pending")]
  /\ silentTrack' = Paused(silentTrack)
  /\ soundObj' = Paused(soundObj)
  /\ audible' = {}
  /\ UNCHANGED <<step, isSpeaking, isLoading, error, calendarSummary, podcastControl,
                 speechTimeoutRef, runs, runLimit, phase, capStep, safety, utter, utterKind,
                 speechQueue, podTimers, notif, alarmEvents, moves, plays,
                 activeSilentSound, unloading>>
  /\ UNCHANGED <<latestEpisode, sound, isPlaying, loading, playerError, loaded, playerOps,
                 playerStarted, playerLimit, soundsMade>>
  /\ UNCHANGED <<varsA, varsT, varsN, varsF>>

\* The 300 ms settle delay of run r elapses; Audio.setIsEnabledAsync(true) is called.
SetupSettles(r) ==
  /\ speechTimer[r] = "disabled"
  /\ speechTimer' = [speechTimer EXCEPT ![r] = SetupStageAfter("disabled")]
  /\ UNCHANGED <<step, isSpeaking, isLoading, error, calendarSummary, podcastControl,
                 speechTimeoutRef, runs, runLimit, phase, capStep, safety, utter, utterKind,
                 speechQueue, podTimers, notif, alarmEvents, moves, plays,
                 varsS>>
  /\ UNCHANGED <<varsA, varsT, varsP, varsN, varsF>>

\* Audio.setIsEnabledAsync(true) of run r resolves; Audio.setAudioModeAsync is called.
SetupEnables(r) ==
  /\ speechTimer[r] = "settled"
  /\ speechTimer' = [speechTimer EXCEPT ![r] = SetupStageAfter("settled")]
  /\ UNCHANGED <<step, isSpeaking, isLoading, error, calendarSummary, podcastControl,
                 speechTimeoutRef, runs, runLimit, phase, capStep, safety, utter, utterKind,
                 speechQueue, podTimers, notif, alarmEvents, moves, plays,
                 varsS>>
  /\ UNCHANGED <<varsA, varsT, varsP, varsN, varsF>>

\* Audio.setAudioModeAsync of run r resolves:
\* Speech.speak(response, {onStart, onDone, onStopped, onError}).
SetupSpeaks(r) ==
  /\ speechTimer[r] = "enabled"
  /\ speechTimer' = [speechTimer EXCEPT ![r] = "fired"]
  /\ utter' = [utter EXCEPT ![r] = "queued"]
  /\ utterKind' = [utterKind EXCEPT ![r] = "normal"]
  /\ speechQueue' = Append(speechQueue, r)
  /\ UNCHANGED <<step, isSpeaking, isLoading, error, calendarSummary, podcastControl,
                 speechTimeoutRef, runs, runLimit, phase, capStep, safety, podTimers, notif,
                 alarmEvents, moves, plays, varsS>>
  /\ UNCHANGED <<varsA, varsT, varsP, varsN, varsF>>

\* What the audio setup of run r is awaiting rejects (both setIsEnabledAsync
\* calls and setAudioModeAsync can; the delay cannot): the catch block does
\* setError and Speech.speak(response, {onDone, onError}). A rejected
\* setIsEnabledAsync(false) may or may not have paused the sounds.
SetupThrows(r) ==
  /\ speechTimer[r] \in {"pending", "settled", "enabled"}
  /\ speechTimer' = [speechTimer EXCEPT ![r] = "fired"]
  /\ error' = "audio"
  /\ utter' = [utter EXCEPT ![r] = "queued"]
  /\ utterKind' = [utterKind EXCEPT ![r] = "fallback"]
  /\ speechQueue' = Append(speechQueue, r)
  /\ \E paused \in BOOLEAN :
       IF paused /\ speechTimer[r] = "pending"
         THEN /\ silentTrack' = Paused(silentTrack)
              /\ soundObj' = Paused(soundObj)
              /\ audible' = {}
         ELSE UNCHANGED <<silentTrack, soundObj, audible>>
  /\ UNCHANGED <<step, isSpeaking, isLoading, calendarSummary, podcastControl,
                 speechTimeoutRef, runs, runLimit, phase, capStep, safety, podTimers, notif,
                 alarmEvents, moves, plays, activeSilentSound, unloading>>
  /\ UNCHANGED <<latestEpisode, sound, isPlaying, loading, playerError, loaded, playerOps,
                 playerStarted, playerLimit, soundsMade>>
  /\ UNCHANGED <<varsA, varsT, varsN, varsF>>

\* A priming step that makes startMyDay give up.
AfterPrimingFailure_Aborts == "aborted"

\* The position of startMyDay after the catch of its audio initialisation
\* ("continuing anyway"): the calendar fetch is issued.
AfterPrimingFailure == "fetching"

\* startMyDay when an await of its audio initialisation rejects (enable,
\* audio mode, loadAsync, playAsync, or the unloadAsync after the delay):
\* caught, then fetchAndProcessEvents() as usual. A rejected unloadAsync may or
\* may not have unloaded the priming sound.
FetchIssuePrimingFails(r) ==
  /\ phase[r] \in {"tracked", "priming"}
  /\ phase' = [phase EXCEPT ![r] = AfterPrimingFailure]
  /\ capStep' = [capStep EXCEPT ![r] = step]
  /\ \E stopped \in BOOLEAN :
       soundObj' = IF stopped /\ phase[r] = "priming" THEN Unloaded(soundObj, r) ELSE soundObj
  /\ UNCHANGED <<step, isSpeaking, isLoading, error, calendarSummary, podcastControl,
                 speechTimeoutRef, runs, runLimit, safety, speechTimer, utter, utterKind,
                 speechQueue, podTimers, notif, alarmEvents, moves, plays,
                 silentTrack, activeSilentSound, unloading>>
  /\ UNCHANGED <<varsA, varsT, varsP, varsN, varsF>>

\* startMyDay of run r past its reset section, one await (or group of awaits
\* that changes nothing here) at a time.
StartAwaits(r) ==
  \/ OngoingPresented(r)
  \/ OngoingRejected(r)
  \/ SilentTrackUnloads(r)
  \/ SilentTrackPrepares(r)
  \/ SilentTrackStarts(r)
  \/ SilentTrackFails(r)
  \/ PrimingLoads(r)
  \/ PrimingPlays(r)
  \/ FetchIssue(r)
  \/ FetchIssuePrimingFails(r)

\* The 800 ms callback of run r, one await at a time.
SpeechSetup(r) ==
  \/ SetupDisables(r)
  \/ SetupSettles(r)
  \/ SetupEnables(r)
  \/ SetupSpeaks(r)
  \/ SetupThrows(r)

\* The callbacks of the speech engine.
SpeechCallbacks(r) ==
  \/ OnStart(r)
  \/ OnDone(r)
  \/ OnError(r)
  \/ OnStopped(r)

\* The morning routine up to moveToPodcast.
SetupStep ==
  \/ AlarmFires
  \/ NotificationReceived
  \/ NotificationResponse
  \/ PressStartMyDay
  \/ \E r \in Runs : StartAwaits(r)
  \/ \E r \in Runs : handleCalendarResponse(r)
  \/ \E r \in Runs : FetchFails(r)
  \/ \E r \in Runs : SafetyTimeoutFires(r)
  \/ \E r \in Runs : SpeechSetup(r)
  \/ \E r \in Runs : SpeechCallbacks(r)

\* The morning routine with the 500 ms timers of moveToPodcast.
RoutineStep ==
  \/ SetupStep
  \/ \E r \in Runs : PodcastTimerFires(r)

\* The alarm and the notifications of a morning: the alarm notification and
\* the button start runs, each run presents its ongoing notification and then
\* issues its fetch, and the ongoing notifications reach the listeners.
OngoingStep ==
  \/ AlarmFires
  \/ NotificationReceived
  \/ NotificationResponse
  \/ PressStartMyDay
  \/ \E r \in Runs : StartAwaits(r)
  \/ \E r \in Runs : OngoingReceived(r)
  \/ \E r \in Runs : OngoingTapped(r)
  \/ \E r \in Runs : FetchFails(r)
  \/ \E r \in Runs : handleCalendarResponse(r)

\* The morning routine together with the podcast player it controls and the
\* player's own buttons: MaxJointRuns runs are followed to their podcast stage,
\* the startMyDay call after them up to its first await.
AudioStep ==
  \/ AlarmFires
  \/ NotificationReceived
  \/ NotificationResponse
  \/ PressStartMyDay
  \/ \E r \in 1..MaxJointRuns : OngoingPresented(r)
  \/ \E r \in 1..MaxJointRuns : OngoingRejected(r)
  \/ \E r \in 1..MaxJointRuns : SilentTrackPrepares(r)
  \/ \E r \in 1..MaxJointRuns : SilentTrackStarts(r)
  \/ \E r \in 1..MaxJointRuns : SilentTrackFails(r)
  \/ \E r \in 1..MaxJointRuns : PrimingLoads(r)
  \/ \E r \in 1..MaxJointRuns : PrimingPlays(r)
  \/ \E r \in 1..MaxJointRuns : FetchIssue(r)
  \/ \E r \in 1..MaxJointRuns : FetchIssuePrimingFails(r)
  \/ \E r \in 1..MaxJointRuns : handleCalendarResponse(r)
  \/ \E r \in 1..MaxJointRuns : FetchFails(r)
  \/ \E r \in 1..MaxJointRuns : SpeechSetup(r)
  \/ \E r \in 1..MaxJointRuns : SpeechCallbacks(r)
  \/ \E r \in 1..MaxJointRuns : PodcastTimerFires(r)
  \/ PlayerOwnStep

\* ------------------------------------------------------ calendar fetcher

\* The answers one call can get: the permission status (or the request
\* throwing), whether Calendar.getCalendarsAsync resolves or throws, the number
\* of calendars, the calendar whose getEventsAsync throws (0: none), and what
\* the summary request does.
FetchInputs ==
  [perm : {"granted", "denied", "throws"},
   list : {"resolves", "throws"},
   cals : 0..MaxCalendars,
   failAt : 0..MaxCalendars,
   resp : {"ok", "ok-callback-throws", "not-ok", "network-error", "bad-json"}]

\* No call has been made; `in` is what the call would be answered.
FetchAtRest(in) ==
  /\ fetchPc = "idle"
  /\ fetchIn = in
  /\ fetchIdx = 0
  /\ callbacks = 0
  /\ fetchError = "null"
  /\ fetchLoading = FALSE

\* A call that reports to its caller whatever the response was.
CallbacksAfter_Always(resp, n) == n + 1

\* `if (response.ok) { setApiResponse(...); onApiResponse(data.summary) }`
CallbacksAfter(resp, n) == IF resp \in {"ok", "ok-callback-throws"} THEN n + 1 ELSE n

\* The error shown after the summary request: none, the else branch, or the
\* inner catch (the request, response.json() or the callback threw).
ErrorAfter(resp) ==
  IF resp = "ok" THEN "null"
  ELSE IF resp = "not-ok" THEN "api-error"
  ELSE "api-failed"

\* The outer catch: setError('Failed to fetch calendar events'), setLoading(false).
FetchThrows ==
  /\ fetchError' = "calendar"
  /\ fetchLoading' = FALSE
  /\ fetchPc' = "done"

\* fetchAndProcessEvents up to `await Calendar.requestCalendarPermissionsAsync()`.
FetchStarts ==
  /\ fetchPc = "idle"
  /\ fetchPc' = "permission"
  /\ fetchLoading' = TRUE
  /\ fetchError' = "null"
  /\ UNCHANGED <<fetchIn, fetchIdx, callbacks>>
  /\ UNCHANGED <<varsR, varsA, varsT, varsP, varsN>>

\* The permission request resolves or throws; anything but "granted" ends the call.
FetchPermissionAnswers ==
  /\ fetchPc = "permission"
  /\ IF fetchIn.perm = "granted"
       THEN fetchPc' = "calendars" /\ UNCHANGED <<fetchError, fetchLoading>>
       ELSE IF fetchIn.perm = "denied"
         THEN /\ fetchError' = "permission"
              /\ fetchLoading' = FALSE
              /\ fetchPc' = "done"
         ELSE FetchThrows
  /\ UNCHANGED <<fetchIn, fetchIdx, callbacks>>
  /\ UNCHANGED <<varsR, varsA, varsT, varsP, varsN>>

\* Calendar.getCalendarsAsync resolves and the loop over the calendars
\* begins, or it throws to the outer catch.
FetchCalendarsListed ==
  /\ fetchPc = "calendars"
  /\ IF fetchIn.list = "resolves"
       THEN /\ fetchPc' = "events"
            /\ fetchIdx' = 1
            /\ UNCHANGED <<fetchError, fetchLoading>>
       ELSE FetchThrows /\ UNCHANGED fetchIdx
  /\ UNCHANGED <<fetchIn, callbacks>>
  /\ UNCHANGED <<varsR, varsA, varsT, varsP, varsN>>

\* Calendar.getEventsAsync of one calendar resolves, or throws to the outer catch.
FetchEventsRead ==
  /\ fetchPc = "events"
  /\ fetchIdx <= fetchIn.cals
  /\ IF fetchIn.failAt = fetchIdx
       THEN FetchThrows /\ UNCHANGED fetchIdx
       ELSE fetchIdx' = fetchIdx + 1 /\ UNCHANGED <<fetchPc, fetchError, fetchLoading>>
  /\ UNCHANGED <<fetchIn, callbacks>>
  /\ UNCHANGED <<varsR, varsA, varsT, varsP, varsN>>

\* The events are sorted and formatted and the summary request is sent.
FetchRequestSent ==
  /\ fetchPc = "events"
  /\ fetchIdx > fetchIn.cals
  /\ fetchPc' = "request"
  /\ UNCHANGED <<fetchIn, fetchIdx, callbacks, fetchError, fetchLoading>>
  /\ UNCHANGED <<varsR, varsA, varsT, varsP, varsN>>

\* The summary request ends: the inner try/catch, then setLoading(false).
FetchResponseArrives ==
  /\ fetchPc = "request"
  /\ callbacks' = CallbacksAfter(fetchIn.resp, callbacks)
  /\ fetchError' = ErrorAfter(fetchIn.resp)
  /\ fetchLoading' = FALSE
  /\ fetchPc' = "done"
  /\ UNCHANGED <<fetchIn, fetchIdx>>
  /\ UNCHANGED <<varsR, varsA, varsT, varsP, varsN>>

\* The fetcher before any call, in the specifications that do not look into it.
InitFetch ==
  FetchAtRest([perm |-> "granted", list |-> "resolves", cals |-> 0, failAt |-> 0, resp |-> "ok"])

FetchStep ==
  \/ FetchStarts
  \/ FetchPermissionAnswers
  \/ FetchCalendarsListed
  \/ FetchEventsRead
  \/ FetchRequestSent
  \/ FetchResponseArrives

\* ------------------------------------------------------ wake scheduler

DayOf(t) == t \div TicksPerDay
TimeOfDay(t) == t % TicksPerDay

\* scheduleAlarm, the rollover: triggerTime = new Date(date), moved one day on
\* (triggerTime.setDate(triggerTime.getDate() + 1)) when
\* triggerTime.getTime() <= now.getTime().
ScheduledAt(d, n) == IF d <= n THEN d + TicksPerDay ELSE d

\* onTimeChange: the hour and minute of the picked time on the day of tempDate.
SetTimeOfDay(t, tod) == DayOf(t) * TicksPerDay + tod

\* The component as mounted, in a scenario of at most `limit` operations.
InitAlarmUpTo(limit) ==
  /\ now \in TimesOfDay
  /\ isEnabled = FALSE
  /\ hasPermission = FALSE
  /\ date = now
  /\ tempDate = now
  /\ dialogOpen = FALSE
  /\ notification = 0
  /\ mountPerm = "pending"
  /\ scheduled = {}
  /\ ops = <<>>
  /\ started = 0
  /\ opLimit = limit
  /\ nextId = 0
  /\ debugInfo = "null"
  /\ appState = "active"
  /\ mountDate = now

\* A scheduleAlarm call made in a render whose notification is n and whose date
\* is d. With nothing recorded, cancelAlarm returns at once, the trigger time
\* is computed from the clock now and Notifications.setNotificationCategoryAsync
\* is awaited; otherwise the host cancel is awaited.
NewSchedule(n, d) ==
  IF n = 0
    THEN [kind |-> "schedule", pc |-> "category", notif |-> n, date |-> d,
          at |-> ScheduledAt(d, now), calc |-> now, live |-> TRUE]
    ELSE [kind |-> "schedule", pc |-> "cancel", notif |-> n, date |-> d,
          at |-> 0, calc |-> 0, live |-> TRUE]

\* The operations the state-change effect starts in a render with these values:
\* scheduleAlarm, cancelAlarm (which does nothing with no identifier recorded),
\* or a permission request whose callback keeps this render's closure.
Effect(en, perm, n, d) ==
  IF en /\ perm THEN <<NewSchedule(n, d)>>
  ELSE IF ~en
    THEN IF n # 0
           THEN <<[kind |-> "cancel", pc |-> "cancel", notif |-> n, date |-> d,
                   at |-> 0, calc |-> 0, live |-> TRUE]>>
           ELSE <<>>
  ELSE <<[kind |-> "permission", pc |-> "request", notif |-> n, date |-> d,
          at |-> 0, calc |-> 0, live |-> TRUE]>>

\* The operations in flight become `rest` followed by the newly started `new`.
Launch(rest, new) ==
  /\ started + Len(new) <= opLimit
  /\ ops' = rest \o new
  /\ started' = started + Len(new)
  /\ opLimit' = opLimit

\* A setState made by operation i: it sets the state of the component
\* instance that started the operation, and does nothing once that instance is
\* unmounted.
SetState(i, new, old) == IF ops[i].live THEN new ELSE old

\* Cancelling identifier n at the host.
HostCancel(set, n) == {t \in set : t.id # n}

\* The permission request of the mount effect resolves.
MountPermissionResolves(granted) ==
  /\ mountPerm = "pending"
  /\ mountPerm' = "done"
  /\ hasPermission' = granted
  /\ Launch(ops, IF granted # hasPermission
                   THEN Effect(isEnabled, granted, notification, date) ELSE <<>>)
  /\ debugInfo' = IF granted THEN debugInfo ELSE "not-granted"
  /\ UNCHANGED <<now, isEnabled, date, tempDate, dialogOpen, notification, scheduled, nextId, appState,
                 mountDate>>
  /\ UNCHANGED <<varsR, varsT, varsP, varsN, varsF>>

\* The switch: onValueChange = setIsEnabled, then the effect of the new render.
ToggleEnabled ==
  /\ isEnabled' = ~isEnabled
  /\ Launch(ops, Effect(~isEnabled, hasPermission, notification, date))
  /\ UNCHANGED <<now, hasPermission, date, tempDate, dialogOpen, notification,
                 mountPerm, scheduled, nextId, debugInfo, appState, mountDate>>
  /\ UNCHANGED <<varsR, varsT, varsP, varsN, varsF>>

openEditDialog ==
  /\ ~dialogOpen
  /\ tempDate' = date
  /\ dialogOpen' = TRUE
  /\ UNCHANGED <<now, isEnabled, hasPermission, date, notification, mountPerm,
                 scheduled, ops, started, opLimit, nextId, debugInfo, appState, mountDate>>
  /\ UNCHANGED <<varsR, varsT, varsP, varsN, varsF>>

onTimeChange(tod) ==
  /\ dialogOpen
  /\ tempDate' = SetTimeOfDay(tempDate, tod)
  /\ UNCHANGED <<now, isEnabled, hasPermission, date, dialogOpen, notification,
                 mountPerm, scheduled, ops, started, opLimit, nextId, debugInfo, appState, mountDate>>
  /\ UNCHANGED <<varsR, varsT, varsP, varsN, varsF>>

\* saveChanges: setDate(tempDate), then scheduleAlarm() of the current render
\* (its date is still the old one) when enabled with permission; the new Date
\* object then makes the effect run in the next render.
saveChanges ==
  /\ dialogOpen
  /\ date' = tempDate
  /\ dialogOpen' = FALSE
  /\ Launch(ops, (IF isEnabled /\ hasPermission
                    THEN <<NewSchedule(notification, date)>> ELSE <<>>)
                 \o Effect(isEnabled, hasPermission, notification, tempDate))
  /\ UNCHANGED <<now, isEnabled, hasPermission, tempDate, notification, mountPerm,
                 scheduled, nextId, debugInfo, appState, mountDate>>
  /\ UNCHANGED <<varsR, varsT, varsP, varsN, varsF>>

cancelChanges ==
  /\ dialogOpen
  /\ dialogOpen' = FALSE
  /\ UNCHANGED <<now, isEnabled, hasPermission, date, tempDate, notification,
                 mountPerm, scheduled, ops, started, opLimit, nextId, debugInfo, appState, mountDate>>
  /\ UNCHANGED <<varsR, varsT, varsP, varsN, varsF>>

\* scheduleAlarm, `await cancelAlarm()` with an identifier recorded: the host
\* cancels it, setNotification(null), setDebugInfo("Alarm canceled"), then the
\* trigger time is computed and Notifications.setNotificationCategoryAsync is
\* called.
ScheduleCancels(i) ==
  /\ ops[i].kind = "schedule"
  /\ ops[i].pc = "cancel"
  /\ scheduled' = HostCancel(scheduled, ops[i].notif)
  /\ notification' = SetState(i, 0, notification)
  /\ ops' = [ops EXCEPT ![i] = [@ EXCEPT !.pc = "category",
                                        !.at = ScheduledAt(ops[i].date, now),
                                        !.calc = now]]
  /\ debugInfo' = SetState(i, "canceled", debugInfo)
  /\ UNCHANGED <<now, isEnabled, hasPermission, date, tempDate, dialogOpen, mountPerm,
                 started, opLimit, nextId, appState, mountDate>>
  /\ UNCHANGED <<varsR, varsT, varsP, varsN, varsF>>

\* scheduleAlarm, Notifications.setNotificationCategoryAsync resolves:
\* Notifications.scheduleNotificationAsync is called with the trigger time
\* computed before.
ScheduleCategorySet(i) ==
  /\ ops[i].kind = "schedule"
  /\ ops[i].pc = "category"
  /\ ops' = [ops EXCEPT ![i] = [@ EXCEPT !.pc = "register"]]
  /\ UNCHANGED <<now, isEnabled, hasPermission, date, tempDate, dialogOpen, notification,
                 mountPerm, scheduled, started, opLimit, nextId, debugInfo, appState, mountDate>>
  /\ UNCHANGED <<varsR, varsT, varsP, varsN, varsF>>

\* scheduleAlarm, Notifications.scheduleNotificationAsync resolves: the host
\* holds the new trigger, setNotification(identifier), setDebugInfo("Alarm
\* scheduled ..."); the call goes on, inside the same try, to await
\* registerBackgroundFetchAsync() and getAllScheduledNotificationsAsync().
ScheduleRegisters(i) ==
  /\ ops[i].kind = "schedule"
  /\ ops[i].pc = "register"
  /\ nextId' = nextId + 1
  /\ scheduled' = scheduled \cup {[id |-> nextId + 1, at |-> ops[i].at]}
  /\ notification' = SetState(i, nextId + 1, notification)
  /\ ops' = [ops EXCEPT ![i] = [@ EXCEPT !.pc = "verify"]]
  /\ debugInfo' = SetState(i, "scheduled", debugInfo)
  /\ UNCHANGED <<now, isEnabled, hasPermission, date, tempDate, dialogOpen, mountPerm,
                 started, opLimit, appState, mountDate>>
  /\ UNCHANGED <<varsR, varsT, varsP, varsN, varsF>>

\* A rejected registration that is tried again: the operation stays in flight.
AfterRejection_Retry(q, i) == q

\* The catch of scheduleAlarm: the call ends, nothing is tried again.
AfterRejection(q, i) == Without(q, i)

\* scheduleAlarm, the host rejects setNotificationCategoryAsync or the
\* registration: caught, setDebugInfo with the error, nothing recorded.
ScheduleRejected(i) ==
  /\ ops[i].kind = "schedule"
  /\ ops[i].pc \in {"category", "register"}
  /\ ops' = AfterRejection(ops, i)
  /\ debugInfo' = SetState(i, "error", debugInfo)
  /\ UNCHANGED <<now, isEnabled, hasPermission, date, tempDate, dialogOpen,
                 notification, mountPerm, scheduled, started, opLimit, nextId, appState, mountDate>>
  /\ UNCHANGED <<varsR, varsT, varsP, varsN, varsF>>

\* scheduleAlarm, after the registration: registerBackgroundFetchAsync returns
\* (a rejected registerTaskAsync is caught inside it) and the host's list of
\* scheduled notifications is read and logged; the call ends.
ScheduleVerified(i) ==
  /\ ops[i].kind = "schedule"
  /\ ops[i].pc = "verify"
  /\ ops' = Without(ops, i)
  /\ UNCHANGED <<now, isEnabled, hasPermission, date, tempDate, dialogOpen, notification,
                 mountPerm, scheduled, started, opLimit, nextId, debugInfo, appState, mountDate>>
  /\ UNCHANGED <<varsR, varsT, varsP, varsN, varsF>>

\* scheduleAlarm, after the registration: getAllScheduledNotificationsAsync
\* rejects; the catch of scheduleAlarm does setDebugInfo with the error while
\* the alarm stays registered and recorded.
ScheduleVerifyFails(i) ==
  /\ ops[i].kind = "schedule"
  /\ ops[i].pc = "verify"
  /\ ops' = AfterRejection(ops, i)
  /\ debugInfo' = SetState(i, "error", debugInfo)
  /\ UNCHANGED <<now, isEnabled, hasPermission, date, tempDate, dialogOpen,
                 notification, mountPerm, scheduled, started, opLimit, nextId, appState, mountDate>>
  /\ UNCHANGED <<varsR, varsT, varsP, varsN, varsF>>

\* cancelAlarm called by the effect, with an identifier recorded in its render.
CancelCompletes(i) ==
  /\ ops[i].kind = "cancel"
  /\ scheduled' = HostCancel(scheduled, ops[i].notif)
  /\ notification' = SetState(i, 0, notification)
  /\ ops' = Without(ops, i)
  /\ debugInfo' = SetState(i, "canceled", debugInfo)
  /\ UNCHANGED <<now, isEnabled, hasPermission, date, tempDate, dialogOpen, mountPerm,
                 started, opLimit, nextId, appState, mountDate>>
  /\ UNCHANGED <<varsR, varsT, varsP, varsN, varsF>>

\* A denied request that leaves the switch as it is.
EnabledAfterRequest_Kept(en, granted) == en

\* isEnabled after the permission request of the effect: setIsEnabled(false)
\* when the status is not "granted".
EnabledAfterRequest(en, granted) == IF granted THEN en ELSE FALSE

\* The permission request made by the effect resolves: setHasPermission, then
\* scheduleAlarm() of the requesting render when granted, setIsEnabled(false)
\* otherwise; a state that changed makes the effect run in the next render.
PermissionResolves(i, granted) ==
  /\ ops[i].kind = "permission"
  /\ hasPermission' = SetState(i, granted, hasPermission)
  /\ isEnabled' = SetState(i, EnabledAfterRequest(isEnabled, granted), isEnabled)
  /\ Launch(Without(ops, i),
            (IF granted
               THEN <<[NewSchedule(ops[i].notif, ops[i].date) EXCEPT !.live = ops[i].live]>>
               ELSE <<>>)
            \o (IF hasPermission' # hasPermission \/ isEnabled' # isEnabled
                  THEN Effect(isEnabled', granted, notification, date) ELSE <<>>))
  /\ debugInfo' = SetState(i, IF granted THEN debugInfo ELSE "please-grant", debugInfo)
  /\ UNCHANGED <<now, date, tempDate, dialogOpen, notification, mountPerm, scheduled,
                 nextId, appState, mountDate>>
  /\ UNCHANGED <<varsR, varsT, varsP, varsN, varsF>>

\* cancelAlarm awaited by scheduleAlarm, the host cancel throws: cancelAlarm
\* catches it (setDebugInfo with the error, the identifier stays recorded) and
\* returns normally, so scheduleAlarm goes on to compute the trigger time and
\* to call Notifications.setNotificationCategoryAsync.
ScheduleCancelFails(i) ==
  /\ ops[i].kind = "schedule"
  /\ ops[i].pc = "cancel"
  /\ ops' = [ops EXCEPT ![i] = [@ EXCEPT !.pc = "category",
                                        !.at = ScheduledAt(ops[i].date, now),
                                        !.calc = now]]
  /\ debugInfo' = SetState(i, "error", debugInfo)
  /\ UNCHANGED <<now, isEnabled, hasPermission, date, tempDate, dialogOpen, notification,
                 mountPerm, scheduled, started, opLimit, nextId, appState, mountDate>>
  /\ UNCHANGED <<varsR, varsT, varsP, varsN, varsF>>

\* cancelAlarm called by the effect, the host cancel throws: caught inside
\* cancelAlarm, setDebugInfo with the error, the identifier stays recorded.
CancelFails(i) ==
  /\ ops[i].kind = "cancel"
  /\ ops' = Without(ops, i)
  /\ debugInfo' = SetState(i, "error", debugInfo)
  /\ UNCHANGED <<now, isEnabled, hasPermission, date, tempDate, dialogOpen, notification,
                 mountPerm, scheduled, started, opLimit, nextId, appState, mountDate>>
  /\ UNCHANGED <<varsR, varsT, varsP, varsN, varsF>>

\* A listener that sees the isEnabled of the latest render.
MountIsEnabled_Latest == isEnabled

\* isEnabled as the closures of the mount effect hold it: the value of the
\* first render, useState(false).
MountIsEnabled == FALSE

\* The app leaves the foreground; the AppState listener ignores it.
AppStateBackground ==
  /\ appState = "active"
  /\ appState' = "background"
  /\ UNCHANGED <<now, isEnabled, hasPermission, date, tempDate, dialogOpen, notification,
                 mountPerm, scheduled, ops, started, opLimit, nextId, debugInfo, mountDate>>
  /\ UNCHANGED <<varsR, varsT, varsP, varsN, varsF>>

\* The app comes to the foreground: the AppState listener of the mount effect
\* reads the host's scheduled notifications and calls the scheduleAlarm of the
\* first render when its isEnabled holds and the host reports none.
AppStateActive ==
  /\ appState = "background"
  /\ appState' = "active"
  /\ Launch(ops, IF MountIsEnabled /\ scheduled = {}
                   THEN <<NewSchedule(0, mountDate)>> ELSE <<>>)
  /\ UNCHANGED <<now, isEnabled, hasPermission, date, tempDate, dialogOpen, notification,
                 mountPerm, scheduled, nextId, debugInfo, mountDate>>
  /\ UNCHANGED <<varsR, varsT, varsP, varsN, varsF>>

\* A registered trigger reaches its time: the host delivers it and drops it.
TriggerFires(t) ==
  /\ t \in scheduled
  /\ t.at <= now
  /\ scheduled' = scheduled \ {t}
  /\ UNCHANGED <<now, isEnabled, hasPermission, date, tempDate, dialogOpen,
                 notification, mountPerm, ops, started, opLimit, nextId, debugInfo, appState,
                 mountDate>>
  /\ UNCHANGED <<varsR, varsT, varsP, varsN, varsF>>

Tick ==
  /\ now < MaxNow
  /\ now' = now + 1
  /\ UNCHANGED <<isEnabled, hasPermission, date, tempDate, dialogOpen, notification,
                 mountPerm, scheduled, ops, started, opLimit, nextId, debugInfo, appState, mountDate>>
  /\ UNCHANGED <<varsR, varsT, varsP, varsN, varsF>>

AlarmStep ==
  \/ \E g \in BOOLEAN : MountPermissionResolves(g)
  \/ ToggleEnabled
  \/ openEditDialog
  \/ \E tod \in TimesOfDay : onTimeChange(tod)
  \/ saveChanges
  \/ cancelChanges
  \/ \E i \in 1..Len(ops) : ScheduleCancels(i)
  \/ \E i \in 1..Len(ops) : ScheduleCancelFails(i)
  \/ \E i \in 1..Len(ops) : ScheduleCategorySet(i)
  \/ \E i \in 1..Len(ops) : ScheduleRegisters(i)
  \/ \E i \in 1..Len(ops) : ScheduleVerified(i)
  \/ \E i \in 1..Len(ops) : ScheduleVerifyFails(i)
  \/ \E i \in 1..Len(ops) : ScheduleRejected(i)
  \/ \E i \in 1..Len(ops) : CancelCompletes(i)
  \/ \E i \in 1..Len(ops) : CancelFails(i)
  \/ \E i \in 1..Len(ops) : \E g \in BOOLEAN : PermissionResolves(i, g)
  \/ \E t \in scheduled : TriggerFires(t)
  \/ Tick


\* ------------------------------------------------------ background task

\* `timeDiff < 60`: the pre-warm window of the background task, in seconds.
PrepareWindow == 60

\* Seconds until fire of the entries given to the task: around both ends of
\* the window, and past due.
TimeDiffs == {-5, 0, 1, 10, 11, PrepareWindow - 1, PrepareWindow, PrepareWindow + 1}

\* An entry of the host's list: content.data.type, and either the seconds its
\* trigger is away or a trigger that is null (reading trigger.value throws).
TaskEntries ==
  [type : {"alarm", "other"}, trigger : {"date"}, diff : TimeDiffs]
    \cup [type : {"alarm", "other"}, trigger : {"null"}, diff : {0}]

\* The sequences over S of length n.
RECURSIVE SeqsOfLen(_, _)
SeqsOfLen(S, n) ==
  IF n = 0 THEN {<<>>}
  ELSE {Append(q, e) : q \in SeqsOfLen(S, n - 1), e \in S}

TaskInputs == UNION {SeqsOfLen(TaskEntries, n) : n \in 0..MaxTriggers}

\* The task is not running and the host would return `list` to it.
TaskAtRest(list) ==
  /\ taskPc = "idle"
  /\ taskList = list
  /\ taskIdx = 0
  /\ taskCalls = <<>>
  /\ taskError = "none"
  /\ taskResult = "none"

\* The test of the loop body: an alarm entry strictly inside the window.
ShouldPrepare(e) ==
  e.type = "alarm" /\ e.trigger = "date" /\ e.diff > 0 /\ e.diff < PrepareWindow

\* A task whose errors escape to the host.
TaskOutcome_Uncaught(err) == IF err = "none" THEN "NewData" ELSE "thrown"

\* try { ... return NewData } catch { return Failed }
TaskOutcome(err) == IF err = "none" THEN "NewData" ELSE "Failed"

\* The task ends with error `err` (or "none").
TaskEnds(err) ==
  /\ taskPc' = "done"
  /\ taskError' = err
  /\ taskResult' = TaskOutcome(err)

\* Where the loop over `list`, entered at entry i, stops running: at the first
\* entry for which it calls Audio.setAudioModeAsync and awaits the answer
\* ("call"), at the first alarm entry whose trigger is null, where reading
\* notification.trigger.value throws ("throw"), or past the last entry ("end").
RECURSIVE LoopStop(_, _)
LoopStop(list, i) ==
  IF i > Len(list) THEN [at |-> i, kind |-> "end"]
  ELSE IF list[i].type = "alarm" /\ list[i].trigger = "null" THEN [at |-> i, kind |-> "throw"]
  ELSE IF ShouldPrepare(list[i]) THEN [at |-> i, kind |-> "call"]
  ELSE LoopStop(list, i + 1)

\* The task runs its loop from entry `from` until it awaits or returns: the
\* call of Audio.setAudioModeAsync is issued here, before its answer.
TaskLoop(from) ==
  LET stop == LoopStop(taskList, from) IN
  /\ taskIdx' = stop.at
  /\ IF stop.kind = "call"
       THEN /\ taskCalls' = Append(taskCalls, [call |-> "setAudioModeAsync", entry |-> stop.at])
            /\ taskPc' = "awaiting"
            /\ UNCHANGED <<taskError, taskResult>>
       ELSE /\ TaskEnds(IF stop.kind = "throw" THEN "entry" ELSE "none")
            /\ UNCHANGED taskCalls

\* The host runs the task; getAllScheduledNotificationsAsync resolves and the
\* loop runs up to its first await, a throw, or return NewData.
TaskQueries ==
  /\ taskPc = "idle"
  /\ TaskLoop(1)
  /\ UNCHANGED taskList
  /\ UNCHANGED <<varsR, varsA, varsP, varsN, varsF>>

\* The host runs the task; getAllScheduledNotificationsAsync rejects.
TaskQueryFails ==
  /\ taskPc = "idle"
  /\ TaskEnds("query")
  /\ UNCHANGED <<taskList, taskIdx, taskCalls>>
  /\ UNCHANGED <<varsR, varsA, varsP, varsN, varsF>>

\* A pre-warm whose answer also silences what is playing.
TaskPrepares_Silences ==
  /\ taskPc = "awaiting"
  /\ TaskLoop(taskIdx + 1)
  /\ silentTrack' = Paused(silentTrack)
  /\ UNCHANGED taskList
  /\ UNCHANGED <<step, isSpeaking, isLoading, error, calendarSummary, podcastControl,
                 speechTimeoutRef, runs, runLimit, phase, capStep, safety, speechTimer, utter,
                 utterKind, speechQueue, podTimers, notif, alarmEvents, moves, plays,
                 activeSilentSound, unloading, soundObj>>
  /\ UNCHANGED <<varsA, varsP, varsN, varsF>>

\* The awaited Audio.setAudioModeAsync resolves: the loop goes on from the
\* next entry up to its next await, a throw, or return NewData.
TaskPrepares ==
  /\ taskPc = "awaiting"
  /\ TaskLoop(taskIdx + 1)
  /\ UNCHANGED taskList
  /\ UNCHANGED <<varsR, varsA, varsP, varsN, varsF>>

\* The awaited Audio.setAudioModeAsync rejects: caught, return Failed.
TaskPrepareFails ==
  /\ taskPc = "awaiting"
  /\ TaskEnds("audio")
  /\ UNCHANGED <<taskList, taskIdx, taskCalls>>
  /\ UNCHANGED <<varsR, varsA, varsP, varsN, varsF>>

\* One continuation of the background task.
TaskStep ==
  \/ TaskQueries
  \/ TaskQueryFails
  \/ TaskPrepares
  \/ TaskPrepareFails

\* What the foreground does while the background task may run: the alarm is
\* toggled, permission is asked, triggers are registered and cancelled (or the
\* host rejects the call), the alarm fires, a routine run goes through its
\* calendar, speech and podcast stages and the player plays, pauses and
\* refreshes. What only overlapping runs do (an earlier silent track unloaded,
\* an utterance stopped, the safety timeout outliving the start of speech) is
\* left to the specifications of the routine.
ForegroundStep ==
  \/ \E g \in BOOLEAN : MountPermissionResolves(g)
  \/ ToggleEnabled
  \/ \E i \in 1..Len(ops) : ScheduleCancels(i)
  \/ \E i \in 1..Len(ops) : ScheduleCancelFails(i)
  \/ \E i \in 1..Len(ops) : ScheduleCategorySet(i)
  \/ \E i \in 1..Len(ops) : ScheduleRegisters(i)
  \/ \E i \in 1..Len(ops) : ScheduleVerified(i)
  \/ \E i \in 1..Len(ops) : ScheduleVerifyFails(i)
  \/ \E i \in 1..Len(ops) : ScheduleRejected(i)
  \/ \E i \in 1..Len(ops) : CancelCompletes(i)
  \/ \E i \in 1..Len(ops) : CancelFails(i)
  \/ \E i \in 1..Len(ops) : \E g \in BOOLEAN : PermissionResolves(i, g)
  \/ AlarmFires
  \/ NotificationReceived
  \/ NotificationResponse
  \/ PressStartMyDay
  \/ \E r \in Runs : OngoingPresented(r)
  \/ \E r \in Runs : OngoingRejected(r)
  \/ \E r \in Runs : SilentTrackPrepares(r)
  \/ \E r \in Runs : SilentTrackStarts(r)
  \/ \E r \in Runs : SilentTrackFails(r)
  \/ \E r \in Runs : PrimingLoads(r)
  \/ \E r \in Runs : PrimingPlays(r)
  \/ \E r \in Runs : FetchIssue(r)
  \/ \E r \in Runs : FetchIssuePrimingFails(r)
  \/ \E r \in Runs : handleCalendarResponse(r)
  \/ \E r \in Runs : FetchFails(r)
  \/ \E r \in Runs : SpeechSetup(r)
  \/ \E r \in Runs : OnStart(r)
  \/ \E r \in Runs : OnDone(r)
  \/ \E r \in Runs : OnError(r)
  \/ \E r \in Runs : PodcastTimerFires(r)
  \/ PlayerOwnStep

\* The asynchronous operations of the wake scheduler with every outcome of the
\* host calls and the app moving between background and foreground, at one
\* instant of the clock.
AlarmOpsStep ==
  \/ \E g \in BOOLEAN : MountPermissionResolves(g)
  \/ ToggleEnabled
  \/ openEditDialog
  \/ \E tod \in TimesOfDay : onTimeChange(tod)
  \/ saveChanges
  \/ cancelChanges
  \/ \E i \in 1..Len(ops) : ScheduleCancels(i)
  \/ \E i \in 1..Len(ops) : ScheduleCancelFails(i)
  \/ \E i \in 1..Len(ops) : ScheduleCategorySet(i)
  \/ \E i \in 1..Len(ops) : ScheduleRegisters(i)
  \/ \E i \in 1..Len(ops) : ScheduleVerified(i)
  \/ \E i \in 1..Len(ops) : ScheduleVerifyFails(i)
  \/ \E i \in 1..Len(ops) : ScheduleRejected(i)
  \/ \E i \in 1..Len(ops) : CancelCompletes(i)
  \/ \E i \in 1..Len(ops) : CancelFails(i)
  \/ \E i \in 1..Len(ops) : \E g \in BOOLEAN : PermissionResolves(i, g)
  \/ AppStateBackground
  \/ AppStateActive

\* The Alarm component is mounted anew: nothing of the component state is
\* stored, so every useState starts from its initial value and the mount effect
\* runs again. The cleanup of the old instance calls the cancelAlarm of its
\* first render, whose notification is null, so the host keeps what it holds.
\* When only the component is unmounted (keep), the calls of the old instance
\* still in flight are answered later and their continuations run, with
\* setState calls that do nothing; when the whole process is restarted they
\* end with it.
Restart(keep) ==
  /\ isEnabled' = FALSE
  /\ hasPermission' = FALSE
  /\ date' = now
  /\ tempDate' = now
  /\ dialogOpen' = FALSE
  /\ notification' = 0
  /\ debugInfo' = "null"
  /\ mountPerm' = "pending"
  /\ mountDate' = now
  /\ ops' = IF keep THEN [i \in 1..Len(ops) |-> [ops[i] EXCEPT !.live = FALSE]] ELSE <<>>
  /\ UNCHANGED <<now, scheduled, started, opLimit, nextId, appState>>
  /\ UNCHANGED <<varsR, varsT, varsP, varsN, varsF>>

\* ------------------------------------------------------- specifications

\* The morning routine, with the alarm component freshly mounted and untouched.
Init == InitRoutineUpTo(MaxStarts) /\ InitAlarmUpTo(MaxOps) /\ now = 0 /\ TaskAtRest(<<>>) /\ InitPlayerUpTo(MaxPlayerOps) /\ InitNotify /\ InitFetch

Spec == Init /\ [][RoutineStep]_vars

\* The wake scheduler, with the routine idle.
InitA == InitRoutineUpTo(MaxStarts) /\ InitAlarmUpTo(MaxOps) /\ TaskAtRest(<<>>) /\ InitPlayerUpTo(MaxPlayerOps) /\ InitNotify /\ InitFetch

\* The same in a scenario of two operations.
InitShort ==
  InitRoutineUpTo(MaxStarts) /\ InitAlarmUpTo(MaxShortOps) /\ TaskAtRest(<<>>) /\ InitPlayerUpTo(MaxPlayerOps)
    /\ InitNotify /\ InitFetch

SpecAlarm == InitShort /\ [][AlarmStep]_vars

\* The wake scheduler's operations and their outcomes, with the routine idle.
SpecAlarmOps == InitA /\ [][AlarmOpsStep]_vars

\* The same operations and outcomes in the scenarios of two operations.
SpecAlarmCalls == InitShort /\ [][AlarmOpsStep]_vars

\* The life of an alarm: it is switched on and off and its time is saved anew,
\* its trigger is registered (or the host rejects the call), time passes, the
\* trigger fires, and the app moves between background and foreground.
FiringStep ==
  \/ \E g \in BOOLEAN : MountPermissionResolves(g)
  \/ ToggleEnabled
  \/ openEditDialog
  \/ saveChanges
  \/ \E i \in 1..Len(ops) : ScheduleCancels(i)
  \/ \E i \in 1..Len(ops) : ScheduleCancelFails(i)
  \/ \E i \in 1..Len(ops) : ScheduleCategorySet(i)
  \/ \E i \in 1..Len(ops) : ScheduleRegisters(i)
  \/ \E i \in 1..Len(ops) : ScheduleVerified(i)
  \/ \E i \in 1..Len(ops) : ScheduleVerifyFails(i)
  \/ \E i \in 1..Len(ops) : ScheduleRejected(i)
  \/ \E i \in 1..Len(ops) : CancelCompletes(i)
  \/ \E i \in 1..Len(ops) : CancelFails(i)
  \/ \E i \in 1..Len(ops) : \E g \in BOOLEAN : PermissionResolves(i, g)
  \/ \E t \in scheduled : TriggerFires(t)
  \/ Tick
  \/ AppStateBackground
  \/ AppStateActive

SpecFiring == InitShort /\ [][FiringStep]_vars

\* The wake scheduler's operations across remounts of the component and
\* restarts of the process.
SpecRestart == InitA /\ [][AlarmOpsStep \/ \E keep \in BOOLEAN : Restart(keep)]_vars

\* The morning routine up to moveToPodcast, the audio setup await by await.
SpecSetup == Init /\ [][SetupStep]_vars

\* The routine up to moveToPodcast when startMyDay is called once more: the
\* first MaxStarts runs are followed through, the call after them up to its
\* first await.
ReentryStep ==
  \/ AlarmFires
  \/ NotificationReceived
  \/ NotificationResponse
  \/ PressStartMyDay
  \/ \E r \in 1..MaxStarts : StartAwaits(r)
  \/ \E r \in 1..MaxStarts : handleCalendarResponse(r)
  \/ \E r \in 1..MaxStarts : FetchFails(r)
  \/ \E r \in 1..MaxStarts : SafetyTimeoutFires(r)
  \/ \E r \in 1..MaxStarts : SpeechSetup(r)
  \/ \E r \in 1..MaxStarts : SpeechCallbacks(r)

InitReentry ==
  InitRoutineUpTo(MaxRuns) /\ InitAlarmUpTo(MaxOps) /\ now = 0 /\ TaskAtRest(<<>>) /\ InitPlayerUpTo(MaxPlayerOps)
    /\ InitNotify /\ InitFetch

SpecReentry == InitReentry /\ [][ReentryStep]_vars

\* The morning routine with the silent track and the podcast player.
InitAudio ==
  /\ InitRoutineUpTo(MaxJointRuns + 1) /\ InitAlarmUpTo(MaxOps) /\ now = 0 /\ TaskAtRest(<<>>)
  /\ InitPlayerUpTo(MaxJointCalls) /\ InitNotify /\ InitFetch

SpecAudio == InitAudio /\ [][AudioStep]_vars

\* The podcast player under control changes and button presses; every call in
\* flight gets its answer.
SpecPlayer == Init /\ [][PlayerStep]_vars /\ WF_vars(PlayerOpCompletes)

\* One run of the background task on a list the host may return, with the
\* components at rest.
InitT ==
  InitRoutineUpTo(MaxStarts) /\ InitAlarmUpTo(MaxOps) /\ now = 0 /\ InitPlayerUpTo(MaxPlayerOps) /\ InitNotify /\ InitFetch
    /\ \E l \in TaskInputs : TaskAtRest(l)

SpecTask == InitT /\ [][TaskStep]_vars

\* One morning's notifications.
SpecOngoing == Init /\ [][OngoingStep]_vars

\* One fetchAndProcessEvents call, on every combination of answers.
InitF ==
  InitRoutineUpTo(MaxStarts) /\ InitAlarmUpTo(MaxOps) /\ now = 0 /\ TaskAtRest(<<>>) /\ InitPlayerUpTo(MaxPlayerOps) /\ InitNotify
    /\ \E in \in FetchInputs : FetchAtRest(in)

SpecFetch == InitF /\ [][FetchStep]_vars

\* The background task run once at any moment of the foreground's activity, on
\* a host list with no entry, or with one alarm: inside the window, outside it,
\* or with a null trigger.
BackgroundLists ==
  {<<>>,
   <<[type |-> "alarm", trigger |-> "date", diff |-> 10]>>,
   <<[type |-> "alarm", trigger |-> "date", diff |-> PrepareWindow + 1]>>,
   <<[type |-> "alarm", trigger |-> "null", diff |-> 0]>>}

\* What of the foreground a morning is followed for: the routine with the
\* scheduler and the player's answers, the scheduler's operations alone, or
\* the player's buttons alone.
InitB ==
  /\ now = 0
  /\ InitNotify
  /\ InitFetch
  /\ \E l \in BackgroundLists : TaskAtRest(l)
  /\ \E sc \in {[runs |-> MaxJointRuns, ops |-> MaxJointOps, calls |-> 1],
                 [runs |-> 0, ops |-> MaxShortOps, calls |-> 1],
                 [runs |-> 0, ops |-> 0, calls |-> MaxPlayerOps]} :
       InitRoutineUpTo(sc.runs) /\ InitAlarmUpTo(sc.ops) /\ InitPlayerUpTo(sc.calls)

SpecBackground == InitB /\ [][TaskStep \/ ForegroundStep]_vars

\* ------------------------------------------------------- routine claims

\* Speech.speak is called by the 800 ms timer of run r.
SpeechInvoked(r) == SetupSpeaks(r) \/ SetupThrows(r)

\* The speech collaborator has called onDone or onError for the utterance of run r.
SpeechSignalled(r) == utter[r] \in {"done", "error"}

\* The runs whose calendar fetch is in flight.
FetchesInFlight == {r \in Runs : phase[r] = "fetching"}

\* The runs whose speech is outstanding: the 800 ms timer is pending, its
\* callback is in its audio setup, or the utterance is with the speech engine.
SpeechOutstanding ==
  {r \in Runs : \/ speechTimer[r] \in {"pending", "disabled", "settled", "enabled"}
                \/ utter[r] \in {"queued", "started"}}

\* C25: at most one calendar fetch is in flight and the speech of at most one
\* run is outstanding, however the startMyDay calls interleave.
C25_OneOutstandingOperation ==
  /\ Cardinality(FetchesInFlight) <= 1
  /\ Cardinality(SpeechOutstanding) <= 1

\* The runs whose 30 s safety timeout is armed.
ArmedTimeouts == {r \in Runs : safety[r] = "armed"}

C2_TimeoutAdvances ==
  \A r \in Runs :
    (runs = 1 /\ phase[r] = "responded" /\ ~SpeechSignalled(r))
      => \/ safety[r] = "armed"
         \/ (safety[r] = "fired" /\ step = "playing-podcast" /\ moves[r] = 1)

\* C3: in a single run, once the calendar-summary operation has failed, the
\* routine is idle with an error reported, no speech was started and the
\* podcast control was not set to play.
C3_CalendarFailureGoesIdle ==
  \A r \in Runs :
    (runs = 1 /\ phase[r] = "failed")
      => (step = "idle" /\ error # "null" /\ utter[r] = "none" /\ plays[r] = 0)

\* C4: one fired alarm trigger yields at most one alarm-fired event (one
\* onTrigger / startMyDay invocation), whichever callbacks arrive for it.
C4_OneAlarmEventPerTrigger == alarmEvents <= 1

\* C7: for every run, as soon as any of its onDone, its onError or the expiry
\* of its safety timeout has happened, its callbacks have made exactly one
\* transition to playing-podcast, and the podcast control is set to play
\* exactly once for it (the 500 ms timer is pending or has set it).
C7_ExactlyOneTransition ==
  \A r \in Runs :
    (SpeechSignalled(r) \/ safety[r] = "fired")
      => (moves[r] = 1 /\ plays[r] + podTimers[r] = 1)

\* C8: speech is invoked only when the calendar-summary operation of the
\* current run has returned its text, and the podcast control is set to play
\* only when the speaking stage of the current run has completed, errored or
\* timed out.
C8_StageOrder ==
  [][ /\ \A r \in Runs : SpeechInvoked(r) => phase[runs] = "responded"
      /\ \A r \in Runs : PodcastTimerFires(r)
            => (SpeechSignalled(runs) \/ safety[runs] = "fired") ]_vars

\* C9: a startMyDay call made in the speaking stage leaves the stage at
\* fetching-calendar, no safety timeout armed, no utterance in the speech
\* engine and the podcast control reset, with the calendar fetch of the new
\* run not yet issued.
C9_RestartWhileSpeaking ==
  [][ (step = "speaking" /\ runs' = runs + 1)
        => /\ step' = "fetching-calendar"
           /\ \A r \in Runs : safety'[r] # "armed"
           /\ speechTimeoutRef' = 0
           /\ speechQueue' = <<>>
           /\ podcastControl' = "undefined"
           /\ phase'[runs'] = "awaiting" ]_vars

\* C10: a timer or a speech callback of a run older than the current one
\* changes neither the stage nor the podcast control and starts no speech.
C10_NoLeftovers ==
  [][ \A r \in Runs :
        (r < runs /\ (SafetyTimeoutFires(r) \/ SpeechInvoked(r) \/ PodcastTimerFires(r)
                        \/ OnDone(r) \/ OnError(r)))
          => /\ step' = step
             /\ podcastControl' = podcastControl
             /\ Len(speechQueue') <= Len(speechQueue) ]_vars

\* The position of a stage in the order idle, fetching-calendar, speaking,
\* playing-podcast.
Rank(st) ==
  CASE st = "idle" -> 0
    [] st = "fetching-calendar" -> 1
    [] st = "speaking" -> 2
    [] st = "playing-podcast" -> 3

\* C11: a step that does not start a new run leaves the stage where it is or
\* moves it one stage forward; the calendar response enters speaking only from
\* fetching-calendar and moveToPodcast enters playing-podcast only from
\* speaking, so no stage is entered twice between two resets.
C11_ForwardOnly ==
  [][ runs' = runs =>
        /\ step' = step \/ Rank(step') = Rank(step) + 1
        /\ \A r \in Runs : handleCalendarResponse(r) => step = "fetching-calendar"
        /\ \A r \in Runs : moves'[r] # moves[r] => step = "speaking" ]_vars

\* The sum of f[1], ..., f[n].
RECURSIVE SumUpTo(_, _)
SumUpTo(f, n) == IF n = 0 THEN 0 ELSE f[n] + SumUpTo(f, n - 1)

\* Run r went the happy way and is over: its calendar fetch returned a summary,
\* its utterance of the normal path ended with onDone, and none of its timers
\* is pending.
HappyAndOver(r) ==
  /\ phase[r] = "responded"
  /\ utterKind[r] = "normal"
  /\ utter[r] = "done"
  /\ podTimers[r] = 0
  /\ safety[r] # "armed"

\* C21: when the alarm trigger has fired, the routine was started only by its
\* callbacks, and every run got its calendar summary and its onDone and is over,
\* the routine is in playing-podcast, entered once, and the podcast control is
\* play, set once.
C21_HappyPath ==
  (/\ notif.fired
   /\ runs >= 1
   /\ alarmEvents = runs
   /\ \A r \in 1..runs : HappyAndOver(r))
    => /\ step = "playing-podcast"
       /\ podcastControl = "play"
       /\ SumUpTo(moves, MaxRuns) = 1
       /\ SumUpTo(plays, MaxRuns) = 1

\* C22: onError of the normal path records the speech error and moves the
\* routine to playing-podcast, and like onDone it leaves no safety timeout
\* armed.
C22_ErrorLikeDone ==
  [][ \A r \in Runs :
        (OnError(r) /\ utterKind[r] = "normal")
          => /\ error' = "speech"
             /\ step' = "playing-podcast"
             /\ moves'[r] = moves[r] + 1
             /\ \A q \in Runs : safety'[q] # "armed" ]_vars

\* C22 witness: onError arrived on the normal path while the safety timeout of
\* the second run was the one held: the error is recorded, the routine is in
\* playing-podcast and that timeout is cleared, its handle still in the ref.
C22_Witness ==
  /\ \E r \in Runs : utter[r] = "error" /\ utterKind[r] = "normal" /\ moves[r] = 1
  /\ error = "speech"
  /\ step = "playing-podcast"
  /\ phase[2] = "responded"
  /\ safety[2] = "cleared"
  /\ speechTimeoutRef = 2
  /\ runs = 2

\* C23: the routine has been started from the alarm only once the user has
\* responded to (dismissed) the alarm notification.
C23_OnlyDismissalStarts == alarmEvents > 0 => notif.responded

\* Speech.speak is called for run r by the normal path of its 800 ms callback.
SpeaksNormally(r) ==
  utter[r] = "none" /\ utter'[r] = "queued" /\ utterKind'[r] = "normal"

\* C29: in the 800 ms callback of a run, the audio subsystem is disabled
\* first, the settle delay follows the disabling, the re-enabling follows the
\* end of the delay, the audio mode is set after the re-enabling, and
\* Speech.speak of the normal path is called only when that has resolved; and
\* Speech.speak is never called between a teardown of the audio subsystem and
\* the end of the settle delay that follows it.
C29_SetupOrder ==
  [][ \A r \in Runs :
        /\ (speechTimer'[r] = "disabled" /\ speechTimer[r] # "disabled")
              => speechTimer[r] = "pending"
        /\ (speechTimer'[r] = "settled" /\ speechTimer[r] # "settled")
              => speechTimer[r] = "disabled"
        /\ (speechTimer'[r] = "enabled" /\ speechTimer[r] # "enabled")
              => speechTimer[r] = "settled"
        /\ SpeaksNormally(r) => speechTimer[r] = "enabled"
        /\ SpeechInvoked(r) => \A q \in Runs : speechTimer[q] # "disabled" ]_vars

\* C30: startMyDay issues the calendar fetch when its audio initialisation
\* failed; an audio setup that throws before speech still hands the utterance
\* to the speech engine, and onDone or onError of that utterance moves the
\* routine to playing-podcast.
C30_AudioFailureProceeds ==
  [][ \A r \in Runs :
        /\ FetchIssuePrimingFails(r) => phase'[r] = "fetching"
        /\ SetupThrows(r)
              => (utter'[r] = "queued" /\ speechQueue'[Len(speechQueue')] = r)
        /\ (utterKind[r] = "fallback" /\ (OnDone(r) \/ OnError(r)))
              => (step' = "playing-podcast" /\ moves'[r] = moves[r] + 1) ]_vars

\* C30 witness: the audio setup of the run threw, the utterance of the catch
\* block has ended and the routine has moved to playing-podcast.
C30_Witness ==
  \E r \in Runs :
    /\ error = "audio"
    /\ utterKind[r] = "fallback"
    /\ utter[r] \in {"done", "error"}
    /\ step = "playing-podcast"
    /\ moves[r] = 1

\* --------------------------------------------------------- alarm claims

\* C1: the host holds at most one registered alarm trigger at any time.
C1_AtMostOneTrigger == Cardinality(scheduled) <= 1

\* C5: a trigger registered for a time-of-day equal to or earlier than the
\* time-of-day at which scheduleAlarm read the clock is scheduled on the next
\* calendar day after that reading, at that time-of-day.
C5_PastRollsToNextDay ==
  [][ \A i \in 1..Len(ops) :
        (ScheduleRegisters(i) /\ TimeOfDay(ops[i].date) <= TimeOfDay(ops[i].calc))
          => \E t \in scheduled' \ scheduled :
               t.at = (DayOf(ops[i].calc) + 1) * TicksPerDay + TimeOfDay(ops[i].date) ]_vars

\* C6: a trigger registered for a time-of-day strictly later than the
\* time-of-day at which scheduleAlarm read the clock is scheduled on the day
\* of that reading, at that time-of-day.
C6_LaterTodayStaysToday ==
  [][ \A i \in 1..Len(ops) :
        (ScheduleRegisters(i) /\ TimeOfDay(ops[i].date) > TimeOfDay(ops[i].calc))
          => \E t \in scheduled' \ scheduled :
               t.at = DayOf(ops[i].calc) * TicksPerDay + TimeOfDay(ops[i].date) ]_vars

\* C27: every trigger scheduleAlarm registers is strictly after the instant at
\* which scheduleAlarm read the clock and at most one calendar day after it,
\* whatever the stored alarm date.
C27_NextOccurrence ==
  [][ \A i \in 1..Len(ops) :
        ScheduleRegisters(i)
          => \A t \in scheduled' \ scheduled :
               ops[i].calc < t.at /\ t.at <= ops[i].calc + TicksPerDay ]_vars

\* C28: when the alarm is enabled with permission and no operation is in
\* flight, every registered trigger carries the time-of-day of the stored
\* alarm date (the one last saved).
C28_SavedTimeRegistered ==
  (isEnabled /\ hasPermission /\ ops = <<>>)
    => \A t \in scheduled : TimeOfDay(t.at) = TimeOfDay(date)

\* C12: every transition of the app to the foreground made while the alarm is
\* enabled and the host holds no trigger starts a scheduleAlarm call.
C12_ResumeReconciles ==
  [][ (AppStateActive /\ isEnabled /\ scheduled = {})
        => (started' = started + 1 /\ ops'[Len(ops')].kind = "schedule") ]_vars

\* A scheduleAlarm or cancelAlarm call is still in flight.
ScheduleOrCancelInFlight ==
  \E i \in 1..Len(ops) : ops[i].kind \in {"schedule", "cancel"}

\* C13: whenever the alarm is disabled and no schedule or cancel operation is
\* in flight, the host holds no registered trigger.
C13_DisabledMeansNoTrigger ==
  (~isEnabled /\ ~ScheduleOrCancelInFlight) => scheduled = {}

\* The operations started by the step: those appended to the ones in flight.
StartedByStep == SubSeq(ops', Len(ops') - (started' - started) + 1, Len(ops'))

\* C14: when the permission request made for an enabled alarm is denied, the
\* status text asks for the permission, the alarm is disabled, permission is
\* recorded as missing, and the step registers no trigger and starts no
\* scheduleAlarm call.
C14_DeniedDisables ==
  [][ \A i \in 1..Len(ops) :
        PermissionResolves(i, FALSE)
          => /\ debugInfo' = "please-grant"
             /\ isEnabled' = FALSE
             /\ hasPermission' = FALSE
             /\ scheduled' = scheduled
             /\ \A j \in 1..Len(StartedByStep) : StartedByStep[j].kind # "schedule" ]_vars

\* C14 witness: the request made by enabling without permission was denied:
\* the alarm is off again, the request for permission is shown and the host
\* holds nothing.
C14_Witness ==
  /\ debugInfo = "please-grant"
  /\ ~isEnabled
  /\ ~hasPermission
  /\ scheduled = {}
  /\ ops = <<>>

\* C15: when the host rejects the registration, scheduleAlarm shows the error
\* as status text, records no identifier, leaves the host's triggers as they
\* were, and ends without starting another attempt.
C15_RejectionSurfaced ==
  [][ \A i \in 1..Len(ops) :
        ScheduleRejected(i)
          => /\ debugInfo' = "error"
             /\ notification' = notification
             /\ scheduled' = scheduled
             /\ nextId' = nextId
             /\ started' = started
             /\ Len(ops') = Len(ops) - 1 ]_vars

\* C15 witness: the only scheduleAlarm call made so far was rejected: the error
\* is shown, no identifier was ever handed out or recorded, nothing is in flight.
C15_Witness ==
  /\ debugInfo = "error"
  /\ isEnabled
  /\ hasPermission
  /\ started = 1
  /\ nextId = 0
  /\ notification = 0
  /\ scheduled = {}
  /\ ops = <<>>

\* cancelAlarm runs to its end for operation i: called by the effect, or
\* awaited by scheduleAlarm.
CancelAlarmSucceeds(i) == CancelCompletes(i) \/ ScheduleCancels(i)

\* C16: cancelAlarm is idempotent and never throws. A cancelAlarm with no
\* identifier recorded starts nothing, changes nothing and leaves no trigger
\* registered; a cancelAlarm that runs to its end leaves no trigger registered
\* and none recorded, and changes nothing when the call before it was a cancel
\* too (none recorded, status text "Alarm canceled"); a host cancel that throws
\* is caught: the effect's call just ends and scheduleAlarm goes on.
C16_CancelIdempotent ==
  [][ /\ (ToggleEnabled /\ isEnabled /\ notification = 0)
           => /\ UNCHANGED <<scheduled, notification, debugInfo, ops, started>>
              /\ scheduled' = {}
      /\ \A i \in 1..Len(ops) :
           /\ CancelAlarmSucceeds(i)
                => /\ scheduled' = {}
                   /\ notification' = 0
                   /\ (notification = 0 /\ debugInfo = "canceled")
                        => UNCHANGED <<scheduled, notification, debugInfo>>
           /\ CancelFails(i)
                => (Len(ops') = Len(ops) - 1 /\ UNCHANGED <<scheduled, notification>>)
           /\ ScheduleCancelFails(i)
                => (ops'[i].kind = "schedule" /\ UNCHANGED <<scheduled, notification>>) ]_vars

\* C24: a restart made while the scheduler has recorded the identifier of a
\* trigger the host holds leaves that identifier recorded, so that the next
\* cancelAlarm cancels the trigger.
C24_HandleSurvivesRestart ==
  [][ ((\E keep \in BOOLEAN : Restart(keep)) /\ \E t \in scheduled : t.id = notification)
        => notification' = notification ]_vars

\* ----------------------------------------------- background task claims

\* The entries of the host's list for which the task has called
\* Audio.setAudioModeAsync (the call is recorded when it is made).
Prepared ==
  {taskCalls[j].entry : j \in {n \in 1..Len(taskCalls) : taskCalls[n].call = "setAudioModeAsync"}}

\* An alarm-type trigger with 0 < secondsUntilFire < 60.
InWindow(e) == e.type = "alarm" /\ e.trigger = "date" /\ 0 < e.diff /\ e.diff < 60

\* C17: in one invocation of the task, once it has returned, setAudioModeAsync
\* has been issued for an entry of the host's list if and only if that entry is
\* an alarm-type trigger with 0 < secondsUntilFire < 60; on a list with no
\* such trigger no audio call has been issued and the task has reported success.
C17_PrepareIffInWindow ==
  taskPc = "done"
    => /\ \A k \in 1..Len(taskList) : k \in Prepared <=> InWindow(taskList[k])
       /\ (\A k \in 1..Len(taskList) : ~InWindow(taskList[k]))
            => (taskCalls = <<>> /\ taskResult = "NewData")

\* C18: a successful run of the task on a list holding an alarm-type trigger
\* with secondsUntilFire <= 10 has issued the full re-enable of the audio
\* subsystem (Audio.setIsEnabledAsync).
C18_EscalatesWithinTen ==
  (/\ taskResult = "NewData"
   /\ \E k \in 1..Len(taskList) :
        taskList[k].type = "alarm" /\ taskList[k].trigger = "date" /\ taskList[k].diff <= 10)
    => \E j \in 1..Len(taskCalls) : taskCalls[j].call = "setIsEnabledAsync"

\* C19: the task never throws to the host: a run in which anything threw
\* returns Failed, and a run in which nothing threw returns NewData.
C19_TaskNeverThrows ==
  /\ taskResult # "thrown"
  /\ taskPc = "done"
       => /\ taskError # "none" => taskResult = "Failed"
          /\ taskError = "none" => taskResult = "NewData"

\* C19 witness: the audio prepare call of the second entry rejected, after the
\* first was prepared, and the host was given Failed.
C19_Witness ==
  /\ taskPc = "done"
  /\ taskError = "audio"
  /\ taskResult = "Failed"
  /\ Len(taskCalls) = 2

\* ------------------------------------------------------------ audio claims

\* Speech output is active: an utterance has started and not ended.
SpeechActive == \E r \in Runs : utter[r] = "started"

\* The producers that hold the audio output: the silent sounds that keep the
\* audio session alive (the looping track of a run, the priming sound of a
\* startMyDay), the speech output, and the sounds of the podcast player.
Producers ==
  (IF \E r \in Runs : silentTrack[r] = "playing" \/ soundObj[r] = "playing"
     THEN {"silent-track"} ELSE {})
    \cup (IF SpeechActive THEN {"speech"} ELSE {})
    \cup (IF audible # {} THEN {"podcast"} ELSE {})

\* C20: at most one of the silent keep-alive track, speech output and podcast
\* playback is active, and the podcast a run has started is not playing while
\* a later run is fetching or speaking.
C20_OneAudioProducer ==
  /\ Cardinality(Producers) <= 1
  /\ \A r \in Runs :
       (plays[r] > 0 /\ runs > r /\ step \in {"fetching-calendar", "speaking"})
         => audible = {}

\* ----------------------------------------------------------- player claims

\* C31: when the podcast control is play and the player has no sound yet, the
\* player comes to hold a playing sound, unless the feed or the loading failed
\* or the control was taken back.
C31_PlayEventuallyStarts ==
  (podcastControl = "play" /\ sound = 0 /\ playerError = "null")
    ~> (sound # 0 \/ playerError # "null" \/ podcastControl # "play")

\* C37: the audio module holds at most one sound of the player, and every
\* playing sound is the one the player holds or the one a loadAndPlaySound in
\* flight has just created.
C37_OneLoadedSound ==
  /\ Cardinality(loaded) <= 1
  /\ \A n \in audible :
       n = sound \/ \E i \in 1..Len(playerOps) : playerOps[i].made = n

\* ----------------------------------------------------- speech callbacks

\* Speech.stop() has just dropped an utterance.
\* C32: onStart and onStopped change nothing of the routine but isSpeaking:
\* the stage, the safety timeouts and the ref that holds one, the podcast
\* control, the podcast timers and the utterances of the other runs stay as
\* they are, so a stop of the speech advances nothing by itself.
C32_CallbacksObserveOnly ==
  [][ \A r \in Runs : (OnStart(r) \/ OnStopped(r))
         => /\ UNCHANGED <<step, isLoading, error, calendarSummary, podcastControl,
                           speechTimeoutRef, safety, speechTimer, podTimers, moves,
                           plays, phase, runs, runLimit>>
            /\ \A q \in Runs \ {r} : utter'[q] = utter[q] ]_vars

\* ------------------------------------------------- background task frame

\* C33: a step of the background task leaves the registered triggers, the
\* recorded handle, the enabled flag, the stage and the podcast control as
\* they were, and no sound or utterance starts or stops.
C33_TaskOnlyPrepares ==
  [][ TaskStep
        => UNCHANGED <<scheduled, notification, isEnabled, hasPermission, ops, step,
                       podcastControl, silentTrack, activeSilentSound, soundObj, utter,
                       speechQueue, isSpeaking, loaded, audible, isPlaying, sound>> ]_vars

\* C33 witness: the task has made its pre-warm call, whose answer is pending,
\* while the alarm is enabled with a trigger registered, a silent track is
\* playing and the player holds a playing sound.
C33_Witness ==
  /\ taskPc = "awaiting"
  /\ Len(taskCalls) = 1
  /\ isEnabled
  /\ scheduled # {}
  /\ \E r \in Runs : silentTrack[r] = "playing"
  /\ sound \in audible

\* ----------------------------------------------------------- single shot

\* C34: a trigger firing, time passing and the app changing between background
\* and foreground start no scheduleAlarm and register nothing; with nothing in
\* flight only the switch or a save starts an operation; and a trigger is
\* registered only by a scheduleAlarm call in flight.
C34_SingleShot ==
  [][ /\ ((\E t \in scheduled : TriggerFires(t)) \/ Tick \/ AppStateBackground \/ AppStateActive)
           => (ops' = ops /\ started' = started /\ scheduled' \subseteq scheduled)
      /\ (ops = <<>> /\ mountPerm = "done" /\ ops' # <<>>)
           => (isEnabled' # isEnabled \/ (dialogOpen /\ ~dialogOpen'))
      /\ ~(scheduled' \subseteq scheduled)
           => \E i \in 1..Len(ops) : ops[i].kind = "schedule" /\ ops[i].pc = "register" ]_vars

\* C34 witness: the alarm is still enabled, its trigger has fired (the handle is
\* still recorded, the host holds nothing), a day has passed, the app has been
\* to the background and back, and nothing is in flight.
C34_Witness ==
  /\ isEnabled
  /\ hasPermission
  /\ mountPerm = "done"
  /\ notification # 0
  /\ scheduled = {}
  /\ ops = <<>>
  /\ appState = "active"
  /\ now >= mountDate + TicksPerDay + 1

\* ------------------------------------------------ registration guard

\* The scheduleAlarm calls in flight that have called
\* Notifications.scheduleNotificationAsync and wait for its answer.
RegistrationsCalled(q) == {i \in 1..Len(q) : q[i].kind = "schedule" /\ q[i].pc = "register"}

\* C35: whenever a scheduleAlarm call reaches its registration request, the
\* alarm is enabled and permission is granted.
C35_RegistersOnlyWhenEnabled ==
  [][ Cardinality(RegistrationsCalled(ops')) > Cardinality(RegistrationsCalled(ops))
        => (isEnabled' /\ hasPermission') ]_vars

\* ------------------------------------------------ notification payloads

\* C36: an alarm-fired event is raised only by a listener getting the alarm
\* notification; the ongoing notification being presented, received or tapped
\* raises none and starts no run.
C36_OnlyAlarmPayloadTriggers ==
  [][ /\ alarmEvents' > alarmEvents => (notif.fired /\ notif' # notif /\ ongoing' = ongoing)
      /\ ongoing' # ongoing => (alarmEvents' = alarmEvents /\ runs' = runs /\ step' = step) ]_vars

\* C36 witness: one alarm was received and started run 1, whose ongoing
\* notification was shown to the listener and tapped; still one alarm event,
\* one run.
C36_Witness ==
  /\ notif.received
  /\ ~notif.responded
  /\ ongoing[1] = "tapped"
  /\ alarmEvents = 1
  /\ runs = 1

\* -------------------------------------------------- calendar fetcher claims

\* The call got as far as an OK answer to its summary request.
SummaryOk ==
  /\ fetchIn.perm = "granted"
  /\ fetchIn.list = "resolves"
  /\ fetchIn.failAt \notin 1..fetchIn.cals
  /\ fetchIn.resp \in {"ok", "ok-callback-throws"}

\* C38: a call invokes onApiResponse at most once, only at its end and only
\* when the summary request was answered OK; a call that ended otherwise
\* invoked it never.
C38_CallbackOnlyOnOk ==
  /\ callbacks <= 1
  /\ callbacks = 1 => (fetchPc = "done" /\ SummaryOk)
  /\ (fetchPc = "done" /\ ~SummaryOk) => callbacks = 0

\* C38 witness: a call over two calendars ended with an OK answer and one
\* callback.
C38_Witness ==
  /\ fetchPc = "done"
  /\ fetchIn.cals = 2
  /\ fetchIn.resp = "ok"
  /\ callbacks = 1
  /\ fetchError = "null"

====
